---- MODULE Spec2Model ----
(***************************************************************************)
(* A model of the stampede load generator: Orchestrator.Run, the workers'  *)
(* scenario loop (Worker.Run / executeScript / executeAction), the token   *)
(* bucket RateLimiter, and the metric pipeline (Collector.Record, the      *)
(* aggregation goroutine Collector.collect, Collector.Stop) together with  *)
(* the reporter's final output.                                            *)
(*                                                                         *)
(* Parts of the program that a run does not depend on are studied on their *)
(* own, each under a specification of its own: the events executeAction    *)
(* builds and their aggregation (AggSpec), the requests a worker builds    *)
(* and the session state it keeps (ReqSpec, HtmlSpec, IsoSpec), the        *)
(* credential pool and the credential placeholders (CredSpec), the         *)
(* inter-action delay against a clock (DlySpec), the rate limiter against  *)
(* a finer clock (RateSpec), one call of executeAction against the         *)
(* client's deadline (XchSpec), the start of the program from its files    *)
(* (BootSpec), the expansion of one template string (TmplSpec), the locks  *)
(* of the collector as the reporter reads its statistics (LockSpec) and as *)
(* two reporting goroutines do (MuSpec), one client.Do call against a      *)
(* server that redirects (RedirSpec), the substitutions made in one body   *)
(* (SubstSpec), and the bucket of a rate limiter of any rate (BucketSpec). *)
(***************************************************************************)
EXTENDS Integers, Sequences, FiniteSets, TLC

\* ---- bounds of the model ------------------------------------------------
\* number of exchanges the target server completes before it stops answering
MaxResp == 2
\* capacity of the metric channel (10000 in NewCollector), scaled down
SinkCap == 1
\* length of every response body
BodyBytes == 1

\* --users values explored: a single worker, and two concurrent workers
UserCounts == {1, 2}
\* --rps values explored: 0 and a positive rate
RPSValues == {0, 1}

Workers == 1..2

\* ---- the scenario (script.Script): an ordered list of actions -----------
Actions ==
    << [Name |-> "Login",  ExpectStatus |-> 200, HasDelay |-> FALSE],
       [Name |-> "Submit", ExpectStatus |-> 0,   HasDelay |-> TRUE] >>

NumActions == Len(Actions)

ActionNames == { Actions[i].Name : i \in 1..NumActions }

\* ---- what the target server / transport can answer ----------------------
\* status codes of a received response
ServerStatus == {200, 500}
\* an error client.Do returns without a response: transport failure,
\* timeout (client.Timeout) or the CheckRedirect limit, all one code path
ClientErrors == {"client error"}
CtxCanceled == "context canceled"

\* whole seconds that may pass between two RateLimiter.Allow calls
ElapsedSecs == {0, 1}

VARIABLES
    cfg,        \* config.Config: Users, RPS, LoginURL set, OutputFile set
    proc,       \* the OS process: "running", "exited", "killed", "panic"
    opc,        \* Orchestrator.Run's position
    ctxDone,    \* the cancellation scope (ctx.Done() closed)
    wpc,        \* each worker goroutine's position
    idx,        \* each worker's index in script.Actions (range loop)
    tokens,     \* each worker's RateLimiter.tokens
    loginErr,   \* worker's Run returned "login failed"
    lastExec,   \* index of the action the worker executed last (0: none)
    pend,       \* the metric the worker is about to hand to Record
    responses,  \* responses the server has given so far
    metrics,    \* Collector.metrics: the buffered channel
    closed,     \* Collector.metrics has been closed
    apc,        \* the collect goroutine's position
    cur,        \* the metric collect holds (loop variable)
    actions,    \* Collector.actions: name -> ActionStats (or absent)
    printed,    \* what PrintFinalReport showed (NoReport before)
    saved,      \* what SaveReport wrote (NoReport before)
    submitted,  \* per action name: Record calls made by workers
    dropped,    \* per action name: Record calls that hit the default case
    sess,       \* each worker's csrfToken, sessionHeaders and cookie jar
    req,        \* the request executeAction sent last, and its parts
    cred,       \* util.CredentialsManager and the last lookup made on it
    dly,        \* one worker's executeScript seen against the clock
    rl,         \* one util.RateLimiter seen against a clock of finer grain
    xch,        \* one executeAction call: the request, its deadline, the reply
    boot,       \* the start of the program: main and orchestrator.New
    tmpl,       \* one string given to expandString, and what became of it
    lock,       \* Collector.mu and ActionStats.mu, and who touches a record
    redir,      \* one client.Do call against a server that redirects
    subst,      \* one body given to executeAction's two substitutions
    mu          \* Collector.mu and ActionStats.mu under collect and two reporting goroutines

\* the run itself: orchestrator, workers, rate limiters and metric pipeline
run == << cfg, proc, opc, ctxDone, wpc, idx, tokens, loginErr, lastExec,
          pend, responses, metrics, closed, apc, cur, actions, printed, saved,
          submitted, dropped >>

\* the parts of the program studied on their own, outside a run
units == << rl, xch, boot, tmpl, lock, redir, subst, mu >>

aside == << sess, req, cred, dly, units >>

vars == << run, aside >>

\* ---- text ------------------------------------------------------------------
\* A string is a sequence of symbols. A symbol is one character, or one of
\* the words the program searches for as a whole (a placeholder, a header
\* name, a part of a URL), which no operation of the program splits.
Empty == << >>

\* ---- worker.Worker: the session state worker.New creates ------------------
\* the names under which extractSessionHeaders stores response headers
SessionHeaderNames == {"X-CSRF-Token", "Authorization"}

\* csrfToken "", an empty sessionHeaders map (an absent key reads as the
\* empty string) and an empty cookie jar; pc is the worker's position around
\* client.Do, resp the response client.Do has returned and the worker has
\* not yet looked at
NewSession ==
    [pc |-> "start", csrfToken |-> Empty,
     sessionHeaders |-> [n \in SessionHeaderNames |-> Empty],
     jar |-> Empty,
     resp |-> [Body |-> << >>,
               Header |-> [n \in SessionHeaderNames |-> Empty],
               SetCookie |-> Empty]]

\* ---- net/http: request headers ---------------------------------------------
\* the header names of the model in the form http.Header stores them
CanonicalNames ==
    {"Content-Type", "Accept-Encoding", "X-Csrf-Token", "Authorization"}

\* the header of http.NewRequestWithContext: nothing set (an absent name
\* reads as the empty string)
NoHeader == [n \in CanonicalNames |-> Empty]

\* script.Action: the fields a request is built from; Headers lists the
\* entries of the map in the order the range loop visits them
NoAction == [URL |-> Empty, Headers |-> << >>, Body |-> Empty, JSONBody |-> Empty]

\* no request built yet; otherwise the action executed, and the URL, header,
\* body and cookies that left with the request
NoRequest ==
    [Action |-> NoAction, URL |-> Empty, Header |-> NoHeader, Body |-> Empty,
     Cookies |-> Empty]

\* w.credentials == nil: no credentials file was given
NoPool == [credentials |-> << >>, current |-> 0]

\* values of sess, req, cred and dly while nothing uses them
SessIdle == [w \in Workers |-> NewSession]
ReqIdle == [w \in Workers |-> NoRequest]
\* (call: the user id and the result of the last GetCredentialsForUser)
NoCall == [userID |-> 0, result |-> [Username |-> Empty, Password |-> Empty]]
CredIdle == [pool |-> NoPool, call |-> NoCall]
DlyIdle == << >>

\* no report produced yet; a produced report is the one-element sequence
\* holding the statistics it showed
NoReport == << >>

\* ---- metrics.RequestMetric ----------------------------------------------
RequestMetric(name, status, bytes, err) ==
    [Name |-> name, StatusCode |-> status, BytesRead |-> bytes, Error |-> err]

\* the zero RequestMetric: what a variable holds while it holds no metric
NoMetric == RequestMetric("", 0, 0, "")

\* ---- metrics.ActionStats -------------------------------------------------
\* a name without an entry in Collector.actions
NoStats ==
    [Exists |-> FALSE, TotalOK |-> 0, TotalErrors |-> 0, BytesTotal |-> 0,
     HistCount |-> 0]
\* the record collect creates on the first metric of a name
\* (HistCount: the number of values held by the new, empty Histogram)
NewActionStats ==
    [Exists |-> TRUE, TotalOK |-> 0, TotalErrors |-> 0, BytesTotal |-> 0,
     HistCount |-> 0]

\* the parts studied on their own, before their first step
UnitsIdle ==
    /\ rl = << >>
    /\ xch = << >>
    /\ boot = << >>
    /\ tmpl = << >>
    /\ lock = << >>
    /\ redir = << >>
    /\ subst = << >>
    /\ mu = << >>

AsideIdle ==
    /\ sess = SessIdle
    /\ req = ReqIdle
    /\ cred = CredIdle
    /\ dly = DlyIdle
    /\ UnitsIdle

\* the model of a run leaves these parts out: they hold nothing and no
\* action of a run touches them
AsideUnused ==
    /\ sess = << >>
    /\ req = << >>
    /\ cred = << >>
    /\ dly = << >>
    /\ UnitsIdle

Init ==
    /\ cfg \in [Users : UserCounts, RPS : RPSValues,
                LoginURL : BOOLEAN, OutputFile : BOOLEAN]
    /\ proc = "running"
    /\ opc = "start"
    /\ ctxDone = FALSE
    /\ wpc = [w \in Workers |-> "unused"]
    /\ idx = [w \in Workers |-> 1]
    /\ tokens = [w \in Workers |-> 0]
    /\ loginErr = [w \in Workers |-> FALSE]
    /\ lastExec = [w \in Workers |-> 0]
    /\ pend = [w \in Workers |-> NoMetric]
    /\ responses = 0
    /\ metrics = << >>
    /\ closed = FALSE
    /\ apc = "unstarted"
    /\ cur = NoMetric
    /\ actions = [n \in ActionNames |-> NoStats]
    /\ printed = NoReport
    /\ saved = NoReport
    /\ submitted = [n \in ActionNames |-> 0]
    /\ dropped = [n \in ActionNames |-> 0]
    /\ AsideUnused

Running == proc = "running"

\* ======================= Orchestrator.Run =================================
\* collector.Start(), StartLiveReporting, context.WithTimeout and the spawn
\* loop: worker i+1 is created by worker.New (tokens = rps) and enters Run.
OrchStart ==
    /\ Running /\ opc = "start"
    /\ apc' = "recv"
    /\ wpc' = [w \in Workers |->
                 IF w <= cfg.Users
                 THEN (IF cfg.LoginURL THEN "login" ELSE "loop")
                 ELSE "unused"]
    /\ tokens' = [w \in Workers |-> IF w <= cfg.Users THEN cfg.RPS ELSE 0]
    /\ opc' = "waitCtx"
    /\ UNCHANGED << aside, cfg, proc, ctxDone, idx, loginErr, lastExec, pend,
                    responses, metrics, closed, cur, actions, printed, saved,
                    submitted, dropped >>

\* the timer of context.WithTimeout fires: the cancellation scope is done
DeadlineExpires ==
    /\ Running /\ opc # "start" /\ ~ctxDone
    /\ ctxDone' = TRUE
    /\ UNCHANGED << aside, cfg, proc, opc, wpc, idx, tokens, loginErr, lastExec,
                    pend, responses, metrics, closed, apc, cur, actions,
                    printed, saved, submitted, dropped >>

\* <-ctx.Done()
OrchWaitCtx ==
    /\ Running /\ opc = "waitCtx" /\ ctxDone
    /\ opc' = "wgWait"
    /\ UNCHANGED << aside, cfg, proc, ctxDone, wpc, idx, tokens, loginErr, lastExec,
                    pend, responses, metrics, closed, apc, cur, actions,
                    printed, saved, submitted, dropped >>

AllWorkersReturned == \A w \in Workers : wpc[w] \in {"unused", "returned"}

\* a Run that goes on to its reports without waiting for the workers
OrchNoWgWait ==
    /\ Running /\ opc = "wgWait"
    /\ opc' = "print"
    /\ UNCHANGED << aside, cfg, proc, ctxDone, wpc, idx, tokens, loginErr, lastExec,
                    pend, responses, metrics, closed, apc, cur, actions,
                    printed, saved, submitted, dropped >>

\* wg.Wait()
OrchWgWait ==
    /\ Running /\ opc = "wgWait" /\ AllWorkersReturned
    /\ opc' = "print"
    /\ UNCHANGED << aside, cfg, proc, ctxDone, wpc, idx, tokens, loginErr, lastExec,
                    pend, responses, metrics, closed, apc, cur, actions,
                    printed, saved, submitted, dropped >>

\* Collector.GetStats as the reporter reads it: the counters of every record
GetStats == actions

\* o.reporter.PrintFinalReport()
PrintFinalReport ==
    /\ Running /\ opc = "print"
    /\ printed' = << GetStats >>
    /\ opc' = IF cfg.OutputFile THEN "save" ELSE "deferred"
    /\ UNCHANGED << aside, cfg, proc, ctxDone, wpc, idx, tokens, loginErr, lastExec,
                    pend, responses, metrics, closed, apc, cur, actions,
                    saved, submitted, dropped >>

\* o.reporter.SaveReport(o.cfg.OutputFile)
SaveReport ==
    /\ Running /\ opc = "save"
    /\ saved' = << GetStats >>
    /\ opc' = "deferred"
    /\ UNCHANGED << aside, cfg, proc, ctxDone, wpc, idx, tokens, loginErr, lastExec,
                    pend, responses, metrics, closed, apc, cur, actions,
                    printed, submitted, dropped >>

\* Run returns: the deferred cancel() runs, then the deferred
\* collector.Stop() closes the channel ...
CollectorStopClose ==
    /\ Running /\ opc = "deferred"
    /\ ctxDone' = TRUE
    /\ IF closed
       THEN proc' = "panic" /\ UNCHANGED closed
       ELSE closed' = TRUE /\ UNCHANGED proc
    /\ opc' = "stopWait"
    /\ UNCHANGED << aside, cfg, wpc, idx, tokens, loginErr, lastExec, pend,
                    responses, metrics, apc, cur, actions, printed, saved,
                    submitted, dropped >>

\* ... and waits for <-c.done; then Run returns nil and main returns
CollectorStopWait ==
    /\ Running /\ opc = "stopWait" /\ apc = "done"
    /\ opc' = "returned"
    /\ proc' = "exited"
    /\ UNCHANGED << aside, cfg, ctxDone, wpc, idx, tokens, loginErr, lastExec, pend,
                    responses, metrics, closed, apc, cur, actions, printed,
                    saved, submitted, dropped >>

\* An operator interrupt (SIGINT). main installs no signal handler, so the
\* Go runtime's default applies: the process ends at once. Its goroutines and
\* memory are gone; what it had already printed or written remains.
Interrupt ==
    /\ Running /\ opc # "start"
    /\ proc' = "killed"
    /\ opc' = "killed"
    /\ wpc' = [w \in Workers |-> "unused"]
    /\ idx' = [w \in Workers |-> 1]
    /\ tokens' = [w \in Workers |-> 0]
    /\ loginErr' = [w \in Workers |-> FALSE]
    /\ lastExec' = [w \in Workers |-> 0]
    /\ pend' = [w \in Workers |-> NoMetric]
    /\ responses' = 0
    /\ metrics' = << >>
    /\ apc' = "unstarted"
    /\ cur' = NoMetric
    /\ actions' = [n \in ActionNames |-> NoStats]
    /\ submitted' = [n \in ActionNames |-> 0]
    /\ dropped' = [n \in ActionNames |-> 0]
    /\ UNCHANGED << aside, cfg, ctxDone, closed, printed, saved >>

\* ======================= util.RateLimiter =================================
\* tokensToAdd := int(elapsed.Seconds() * float64(rl.rate))
TokensToAdd(rate, elapsed) == elapsed * rate

\* the refill part of Allow: add, clamp to capacity (capacity = rate = rps)
Refill(tok, rate, elapsed) ==
    IF TokensToAdd(rate, elapsed) > 0
    THEN (IF tok + TokensToAdd(rate, elapsed) > rate
          THEN rate
          ELSE tok + TokensToAdd(rate, elapsed))
    ELSE tok

\* Allow() reports whether a token is available after the refill
AllowGranted(tok, rate, elapsed) == Refill(tok, rate, elapsed) > 0

\* ======================= metrics.Collector ================================
\* a Record whose send has no default case: it waits for room in the channel
RecordBlocking(m) ==
    /\ ~closed /\ Len(metrics) < SinkCap
    /\ submitted' = [submitted EXCEPT ![m.Name] = @ + 1]
    /\ metrics' = Append(metrics, m)
    /\ UNCHANGED << proc, dropped >>

\* Record: select { case c.metrics <- metric: default: }
\* (a send on a closed channel panics)
Record(m) ==
    /\ submitted' = [submitted EXCEPT ![m.Name] = @ + 1]
    /\ IF closed
       THEN proc' = "panic" /\ UNCHANGED << metrics, dropped >>
       ELSE /\ proc' = proc
            /\ IF Len(metrics) < SinkCap
               THEN metrics' = Append(metrics, m) /\ UNCHANGED dropped
               ELSE /\ dropped' = [dropped EXCEPT ![m.Name] = @ + 1]
                    /\ UNCHANGED metrics

\* a success test that looks at the error descriptor only
IsSuccessAnyStatus(m) == m.Error = ""

\* a success test that takes every status below 500 for a success
IsSuccessBelow500(m) == m.Error = "" /\ m.StatusCode >= 200 /\ m.StatusCode < 500

\* the success test of collect
IsSuccess(m) == m.Error = "" /\ m.StatusCode >= 200 /\ m.StatusCode < 400

\* an update that counts the successes only
UpdateStatsOKOnly(st, m) ==
    LET old == IF st.Exists THEN st ELSE NewActionStats
    IN  [Exists      |-> TRUE,
         TotalOK     |-> IF IsSuccess(m) THEN old.TotalOK + 1 ELSE old.TotalOK,
         TotalErrors |-> old.TotalErrors,
         BytesTotal  |-> old.BytesTotal + m.BytesRead,
         HistCount   |-> IF IsSuccess(m) THEN old.HistCount + 1
                                         ELSE old.HistCount]

\* collect: one iteration's update of the action's record (created lazily)
UpdateStats(st, m) ==
    LET old == IF st.Exists THEN st ELSE NewActionStats
    IN  [Exists      |-> TRUE,
         TotalOK     |-> IF IsSuccess(m) THEN old.TotalOK + 1 ELSE old.TotalOK,
         TotalErrors |-> IF IsSuccess(m) THEN old.TotalErrors
                                         ELSE old.TotalErrors + 1,
         BytesTotal  |-> old.BytesTotal + m.BytesRead,
         \* stats.Histogram.RecordValue(latencyMicros): the latency of a
         \* request is below the client's 30 s timeout, inside the
         \* histogram's range of 1 us .. 60 s, so the value is accepted
         HistCount   |-> IF IsSuccess(m) THEN old.HistCount + 1
                                         ELSE old.HistCount]

\* collect: `for metric := range c.metrics` receives the next metric
CollectReceive ==
    /\ Running /\ apc = "recv" /\ Len(metrics) > 0
    /\ cur' = Head(metrics)
    /\ metrics' = Tail(metrics)
    /\ apc' = "update"
    /\ UNCHANGED << aside, cfg, proc, opc, ctxDone, wpc, idx, tokens, loginErr,
                    lastExec, pend, responses, closed, actions, printed,
                    saved, submitted, dropped >>

\* collect: the loop body, under c.mu and stats.mu
CollectUpdate ==
    /\ Running /\ apc = "update"
    /\ actions' = [actions EXCEPT ![cur.Name] = UpdateStats(@, cur)]
    /\ cur' = NoMetric
    /\ apc' = "recv"
    /\ UNCHANGED << aside, cfg, proc, opc, ctxDone, wpc, idx, tokens, loginErr,
                    lastExec, pend, responses, metrics, closed, printed,
                    saved, submitted, dropped >>

\* a collect that leaves its loop as soon as the channel is closed
CollectDoneOnClose ==
    /\ Running /\ apc = "recv" /\ closed
    /\ apc' = "done"
    /\ UNCHANGED << aside, cfg, proc, opc, ctxDone, wpc, idx, tokens, loginErr,
                    lastExec, pend, responses, metrics, closed, cur, actions,
                    printed, saved, submitted, dropped >>

\* collect: the range loop ends on a closed, empty channel; close(c.done)
CollectDone ==
    /\ Running /\ apc = "recv" /\ Len(metrics) = 0 /\ closed
    /\ apc' = "done"
    /\ UNCHANGED << aside, cfg, proc, opc, ctxDone, wpc, idx, tokens, loginErr,
                    lastExec, pend, responses, metrics, closed, cur, actions,
                    printed, saved, submitted, dropped >>

\* ======================= worker.Worker ====================================
\* login: POST to the login URL under ctx. Any client error, a cancelled
\* scope, or a status >= 400 makes Run return "login failed".
WorkerLogin(w) ==
    /\ Running /\ wpc[w] = "login"
    /\ \E ok \in BOOLEAN :
         IF ok /\ ~ctxDone
         THEN wpc' = [wpc EXCEPT ![w] = "loop"] /\ UNCHANGED loginErr
         ELSE /\ wpc' = [wpc EXCEPT ![w] = "returned"]
              /\ loginErr' = [loginErr EXCEPT ![w] = TRUE]
    /\ UNCHANGED << aside, cfg, proc, opc, ctxDone, idx, tokens, lastExec, pend,
                    responses, metrics, closed, apc, cur, actions, printed,
                    saved, submitted, dropped >>

\* Run: for { select { case <-ctx.Done(): return nil; default: executeScript } }
WorkerLoop(w) ==
    /\ Running /\ wpc[w] = "loop"
    /\ IF ctxDone
       THEN wpc' = [wpc EXCEPT ![w] = "returned"] /\ UNCHANGED idx
       ELSE wpc' = [wpc EXCEPT ![w] = "script"] /\ idx' = [idx EXCEPT ![w] = 1]
    /\ UNCHANGED << aside, cfg, proc, opc, ctxDone, tokens, loginErr, lastExec, pend,
                    responses, metrics, closed, apc, cur, actions, printed,
                    saved, submitted, dropped >>

\* executeScript: the select at the head of each range iteration
WorkerScript(w) ==
    /\ Running /\ wpc[w] = "script"
    /\ wpc' = [wpc EXCEPT ![w] = IF ctxDone THEN "loop" ELSE "allow"]
    /\ UNCHANGED << aside, cfg, proc, opc, ctxDone, idx, tokens, loginErr, lastExec,
                    pend, responses, metrics, closed, apc, cur, actions,
                    printed, saved, submitted, dropped >>

\* RateLimiter.Wait: one call of Allow, `elapsed` seconds after the last
\* refill; false leads to the 10 ms sleep
WorkerAllowElapsed(w, elapsed) ==
    /\ Running /\ wpc[w] = "allow"
    /\ IF AllowGranted(tokens[w], cfg.RPS, elapsed)
       THEN /\ tokens' = [tokens EXCEPT
                            ![w] = Refill(tokens[w], cfg.RPS, elapsed) - 1]
            /\ wpc' = [wpc EXCEPT ![w] = "exec"]
       ELSE /\ tokens' = [tokens EXCEPT
                            ![w] = Refill(tokens[w], cfg.RPS, elapsed)]
            /\ wpc' = [wpc EXCEPT ![w] = "sleep"]
    /\ UNCHANGED << aside, cfg, proc, opc, ctxDone, idx, loginErr, lastExec, pend,
                    responses, metrics, closed, apc, cur, actions, printed,
                    saved, submitted, dropped >>

WorkerAllow(w) == \E elapsed \in ElapsedSecs : WorkerAllowElapsed(w, elapsed)

\* RateLimiter.Wait: time.Sleep(10ms), then Allow again
WorkerSleep(w) ==
    /\ Running /\ wpc[w] = "sleep"
    /\ wpc' = [wpc EXCEPT ![w] = "allow"]
    /\ UNCHANGED << aside, cfg, proc, opc, ctxDone, idx, tokens, loginErr, lastExec,
                    pend, responses, metrics, closed, apc, cur, actions,
                    printed, saved, submitted, dropped >>

\* executeAction up to client.Do: with the scope already cancelled Do fails
\* at once; otherwise the request is on the wire
WorkerExec(w) ==
    /\ Running /\ wpc[w] = "exec"
    /\ lastExec' = [lastExec EXCEPT ![w] = idx[w]]
    /\ IF ctxDone
       THEN /\ pend' = [pend EXCEPT ![w] =
                          RequestMetric(Actions[idx[w]].Name, 0, 0, CtxCanceled)]
            /\ wpc' = [wpc EXCEPT ![w] = "record"]
       ELSE /\ wpc' = [wpc EXCEPT ![w] = "inflight"]
            /\ UNCHANGED pend
    /\ UNCHANGED << aside, cfg, proc, opc, ctxDone, idx, tokens, loginErr, responses,
                    metrics, closed, apc, cur, actions, printed, saved,
                    submitted, dropped >>

\* a status check made for every expected status other than 0
StatusErrorNonZero(action, status) ==
    IF action.ExpectStatus # 0 /\ status # action.ExpectStatus
    THEN "expected status"
    ELSE ""

\* the error descriptor of a received response (expected-status check)
StatusError(action, status) ==
    IF action.ExpectStatus > 0 /\ status # action.ExpectStatus
    THEN "expected status"
    ELSE ""

\* client.Do returns a response: body read, status checked
WorkerResponse(w) ==
    /\ Running /\ wpc[w] = "inflight" /\ ~ctxDone /\ responses < MaxResp
    /\ \E status \in ServerStatus :
         pend' = [pend EXCEPT ![w] =
                    RequestMetric(Actions[idx[w]].Name, status, BodyBytes,
                                  StatusError(Actions[idx[w]], status))]
    /\ responses' = responses + 1
    /\ wpc' = [wpc EXCEPT ![w] = "record"]
    /\ UNCHANGED << aside, cfg, proc, opc, ctxDone, idx, tokens, loginErr, lastExec,
                    metrics, closed, apc, cur, actions, printed, saved,
                    submitted, dropped >>

\* a client error that unwinds out of the worker loop instead of being recorded
WorkerClientErrorAborts(w) ==
    /\ Running /\ wpc[w] = "inflight"
    /\ wpc' = [wpc EXCEPT ![w] = "returned"]
    /\ UNCHANGED << aside, cfg, proc, opc, ctxDone, idx, tokens, loginErr, lastExec,
                    pend, responses, metrics, closed, apc, cur, actions,
                    printed, saved, submitted, dropped >>

\* a client error that is not recorded when the scope is cancelled
WorkerClientErrorUnlessCancelled(w) ==
    /\ Running /\ wpc[w] = "inflight"
    /\ ctxDone \/ responses < MaxResp
    /\ responses' = IF ctxDone THEN responses ELSE responses + 1
    /\ IF ctxDone
       THEN wpc' = [wpc EXCEPT ![w] = "loop"] /\ UNCHANGED pend
       ELSE /\ wpc' = [wpc EXCEPT ![w] = "record"]
            /\ \E e \in ClientErrors :
                  pend' = [pend EXCEPT ![w] =
                             RequestMetric(Actions[idx[w]].Name, 0, 0, e)]
    /\ UNCHANGED << aside, cfg, proc, opc, ctxDone, idx, tokens, loginErr, lastExec,
                    metrics, closed, apc, cur, actions, printed, saved,
                    submitted, dropped >>

\* client.Do returns an error: transport failure, timeout, redirect limit,
\* or the scope was cancelled while the request was in flight
WorkerClientError(w) ==
    /\ Running /\ wpc[w] = "inflight"
    /\ \E e \in ClientErrors \cup {CtxCanceled} :
         /\ e = CtxCanceled <=> ctxDone
         /\ pend' = [pend EXCEPT ![w] =
                       RequestMetric(Actions[idx[w]].Name, 0, 0, e)]
    /\ ctxDone \/ responses < MaxResp
    /\ responses' = IF ctxDone THEN responses ELSE responses + 1
    /\ wpc' = [wpc EXCEPT ![w] = "record"]
    /\ UNCHANGED << aside, cfg, proc, opc, ctxDone, idx, tokens, loginErr, lastExec,
                    metrics, closed, apc, cur, actions, printed, saved,
                    submitted, dropped >>

\* executeScript after executeAction returned: the delay select, or the
\* next range iteration, or (after the last action) return nil to Run
AfterAction(w) ==
    IF Actions[idx[w]].HasDelay THEN "delay" ELSE "next"

\* an executeScript that returns to Run after every action
NextActionReturns(w) ==
    wpc' = [wpc EXCEPT ![w] = "loop"] /\ UNCHANGED idx

NextAction(w) ==
    IF idx[w] < NumActions
    THEN wpc' = [wpc EXCEPT ![w] = "script"] /\ idx' = [idx EXCEPT ![w] = @ + 1]
    ELSE wpc' = [wpc EXCEPT ![w] = "loop"] /\ UNCHANGED idx

\* recordMetric -> collector.Record, then back in executeScript
WorkerRecord(w) ==
    /\ Running /\ wpc[w] = "record"
    /\ Record(pend[w])
    /\ pend' = [pend EXCEPT ![w] = NoMetric]
    /\ IF AfterAction(w) = "delay"
       THEN wpc' = [wpc EXCEPT ![w] = "delay"] /\ UNCHANGED idx
       ELSE NextAction(w)
    /\ UNCHANGED << aside, cfg, opc, ctxDone, tokens, loginErr, lastExec, responses,
                    closed, apc, cur, actions, printed, saved >>

\* select { case <-ctx.Done(): return nil; case <-time.After(delay): }
WorkerDelayCancelled(w) ==
    /\ Running /\ wpc[w] = "delay" /\ ctxDone
    /\ wpc' = [wpc EXCEPT ![w] = "loop"]
    /\ UNCHANGED << aside, cfg, proc, opc, ctxDone, idx, tokens, loginErr, lastExec,
                    pend, responses, metrics, closed, apc, cur, actions,
                    printed, saved, submitted, dropped >>

WorkerDelayElapsed(w) ==
    /\ Running /\ wpc[w] = "delay"
    /\ NextAction(w)
    /\ UNCHANGED << aside, cfg, proc, opc, ctxDone, tokens, loginErr, lastExec,
                    pend, responses, metrics, closed, apc, cur, actions,
                    printed, saved, submitted, dropped >>

WorkerStep(w) ==
    \/ WorkerLogin(w)
    \/ WorkerLoop(w)
    \/ WorkerScript(w)
    \/ WorkerAllow(w)
    \/ WorkerSleep(w)
    \/ WorkerExec(w)
    \/ WorkerResponse(w)
    \/ WorkerClientError(w)
    \/ WorkerRecord(w)
    \/ WorkerDelayCancelled(w)
    \/ WorkerDelayElapsed(w)

OrchStep ==
    \/ OrchStart
    \/ OrchWaitCtx
    \/ OrchWgWait
    \/ PrintFinalReport
    \/ SaveReport
    \/ CollectorStopClose
    \/ CollectorStopWait

CollectStep ==
    \/ CollectReceive
    \/ CollectUpdate
    \/ CollectDone

\* a run that ends by its deadline: no operator interrupt is delivered
NextRun ==
    \/ OrchStep
    \/ DeadlineExpires
    \/ CollectStep
    \/ \E w \in Workers : WorkerStep(w)

Next ==
    \/ NextRun
    \/ Interrupt

Spec == Init /\ [][Next]_vars

\* Scheduling: the Go runtime runs every runnable goroutine, the deadline
\* timer fires, every HTTP exchange ends (response, error or client timeout),
\* and wall-clock time passes while Wait sleeps, so some Allow call sees a
\* whole second elapsed.
Fairness ==
    /\ WF_vars(OrchStep)
    /\ WF_vars(DeadlineExpires)
    /\ WF_vars(CollectStep)
    /\ \A w \in Workers : WF_vars(WorkerStep(w))
    /\ \A w \in Workers : SF_vars(WorkerAllowElapsed(w, 1))

\* runs that end by the deadline, under the scheduling above
FairSpec == Init /\ [][NextRun]_vars /\ Fairness

\* ======================= the claims =======================================
ReportProduced == printed # NoReport

\* OK + ERR the final report shows for an action name
ReportedTotal(n) == printed[1][n].TotalOK + printed[1][n].TotalErrors

\* C1: the final output is produced only after every worker has returned,
\* the sink has been closed and the aggregator has finished draining it.
C1_ReportAfterDrain ==
    ReportProduced => (AllWorkersReturned /\ closed /\ apc = "done")

\* C2: for every action the OK + ERR shown in the final report equals the
\* events submitted for it minus the events dropped at a full sink.
C2_ReportCountsAccepted ==
    (ReportProduced /\ proc # "killed") =>
        \A n \in ActionNames : ReportedTotal(n) = submitted[n] - dropped[n]

\* C3: in every run, whatever the configuration, the final report is
\* eventually produced once the deadline has expired.
C3_ReportEventually == ctxDone ~> ReportProduced

\* C4: an interrupt fires the cancellation scope and the final report (and
\* the structured file, when requested) is produced before the process ends.
C4_InterruptStillReports ==
    proc \in {"exited", "killed"} =>
        (ctxDone /\ ReportProduced /\ (cfg.OutputFile => saved # NoReport))

C6_ZeroRateNeverWaits ==
    cfg.RPS = 0 => \A w \in Workers : wpc[w] # "sleep"

\* C7: once the cancellation scope has fired, every worker returns.
C7_CancelReturnsWorkers == ctxDone ~> AllWorkersReturned

\* the action that follows action i in the scenario loop
Successor(i) == (i % NumActions) + 1

\* C8: a worker executes the scenario's actions strictly in order, first to
\* last, then restarts at the first; none is skipped or reordered, whatever
\* the outcome of the earlier actions.
C8_ScenarioOrder ==
    [][\A w \in Workers :
         (wpc[w] = "exec" /\ wpc'[w] \in {"inflight", "record"}) =>
            /\ idx[w] = Successor(lastExec[w])
            /\ lastExec'[w] = idx[w]]_vars

C8_Witness ==
    \E w \in Workers :
        /\ wpc[w] = "inflight" /\ idx[w] = 1 /\ lastExec[w] = 1
        /\ cfg.Users = 1 /\ responses = NumActions
        /\ actions["Login"].TotalErrors > 0

\* a metric that reports a failed request
IsFailure(m) == m.Error # "" \/ m.StatusCode = 0

C10_LoginFailureIsolated ==
    (\E w \in Workers : loginErr[w]) ~> ReportProduced

\* ======================= executeAction's result and the Collector =========
\* One worker executing actions with every kind of expected status against
\* responses on either side of both ends of [200, 400), and the aggregation
\* goroutine draining what it records.
MaxEvents == 3

\* actions of a scenario: expect_status is any YAML integer, and names may
\* repeat
ProbeActions ==
    << [Name |-> "Login",  ExpectStatus |-> 200],
       [Name |-> "Login",  ExpectStatus |-> -1],
       [Name |-> "Submit", ExpectStatus |-> 0],
       [Name |-> "Submit", ExpectStatus |-> 400],
       [Name |-> "Login",  ExpectStatus |-> 101] >>

\* response statuses around the limits of the success range
\* (101 is the one 1xx status net/http hands to its caller)
EdgeStatus == {101, 200, 399, 400}

\* the state of a run right after Orchestrator.Run has started the collector
\* and one worker without a login step
AggInit ==
    /\ cfg = [Users |-> 1, RPS |-> 1, LoginURL |-> FALSE, OutputFile |-> FALSE]
    /\ proc = "running"
    /\ opc = "waitCtx"
    /\ ctxDone = FALSE
    /\ wpc = [w \in Workers |-> IF w = 1 THEN "inflight" ELSE "unused"]
    /\ idx = [w \in Workers |-> 1]
    /\ tokens = [w \in Workers |-> 0]
    /\ loginErr = [w \in Workers |-> FALSE]
    /\ lastExec = [w \in Workers |-> 0]
    /\ pend = [w \in Workers |-> NoMetric]
    /\ responses = 0
    /\ metrics = << >>
    /\ closed = FALSE
    /\ apc = "recv"
    /\ cur = NoMetric
    /\ actions = [n \in ActionNames |-> NoStats]
    /\ printed = NoReport
    /\ saved = NoReport
    /\ submitted = [n \in ActionNames |-> 0]
    /\ dropped = [n \in ActionNames |-> 0]
    /\ AsideUnused

\* Record calls made so far
TotalSubmitted == submitted["Login"] + submitted["Submit"]

\* executeAction from client.Do on, for action i of ProbeActions: an error
\* of client.Do gives status 0, no bytes and the error text; a response
\* gives its status, the bytes read and the outcome of the status check
AggExecute(i) ==
    /\ Running /\ wpc[1] = "inflight" /\ ~closed
    /\ TotalSubmitted < MaxEvents
    /\ lastExec' = [lastExec EXCEPT ![1] = i]
    /\ \/ \E e \in ClientErrors :
             pend' = [pend EXCEPT ![1] =
                        RequestMetric(ProbeActions[i].Name, 0, 0, e)]
       \/ \E status \in EdgeStatus :
             pend' = [pend EXCEPT ![1] =
                        RequestMetric(ProbeActions[i].Name, status, BodyBytes,
                                      StatusError(ProbeActions[i], status))]
    /\ wpc' = [wpc EXCEPT ![1] = "record"]
    /\ UNCHANGED << aside, cfg, proc, opc, ctxDone, idx, tokens, loginErr,
                    responses, metrics, closed, apc, cur, actions, printed,
                    saved, submitted, dropped >>

\* recordMetric -> collector.Record; the worker goes on to its next request
AggRecord ==
    /\ Running /\ wpc[1] = "record"
    /\ Record(pend[1])
    /\ pend' = [pend EXCEPT ![1] = NoMetric]
    /\ wpc' = [wpc EXCEPT ![1] = "inflight"]
    /\ UNCHANGED << aside, cfg, opc, ctxDone, idx, tokens, loginErr, lastExec,
                    responses, closed, apc, cur, actions, printed, saved >>

\* Collector.Stop once the worker is between two requests: close(c.metrics);
\* Stop then waits for <-c.done (CollectorStopWait)
AggStop ==
    /\ Running /\ ~closed /\ wpc[1] = "inflight"
    /\ closed' = TRUE
    /\ opc' = "stopWait"
    /\ UNCHANGED << aside, cfg, proc, ctxDone, wpc, idx, tokens, loginErr,
                    lastExec, pend, responses, metrics, apc, cur, actions,
                    printed, saved, submitted, dropped >>

AggNext ==
    \/ \E i \in 1..Len(ProbeActions) : AggExecute(i)
    \/ AggRecord
    \/ AggStop
    \/ CollectorStopWait
    \/ CollectReceive
    \/ CollectUpdate
    \/ CollectDone

AggSpec == AggInit /\ [][AggNext]_vars

\* the counters of an action as collect sees them (zero before the record
\* of the action exists)
Counters(st) ==
    [TotalOK |-> st.TotalOK, TotalErrors |-> st.TotalErrors,
     BytesTotal |-> st.BytesTotal, HistCount |-> st.HistCount]

\* C11: for each drained event the aggregator adds one to the action's
\* success count and records one latency exactly when the error descriptor
\* is empty and the status is in [200, 400), and otherwise adds one to the
\* error count; exactly one of the two counters grows, by one; the event's
\* bytes are added to the byte total in both cases; the other actions'
\* counters are left alone.
C11_AggregatorCounts ==
    [][ (apc = "update" /\ apc' = "recv") =>
          LET m   == cur
              old == Counters(actions[m.Name])
              new == Counters(actions'[m.Name])
              ok  == m.Error = "" /\ m.StatusCode >= 200 /\ m.StatusCode < 400
          IN  /\ ok => /\ new.TotalOK = old.TotalOK + 1
                       /\ new.HistCount = old.HistCount + 1
                       /\ new.TotalErrors = old.TotalErrors
              /\ ~ok => /\ new.TotalErrors = old.TotalErrors + 1
                        /\ new.TotalOK = old.TotalOK
                        /\ new.HistCount = old.HistCount
              /\ new.BytesTotal = old.BytesTotal + m.BytesRead
              /\ \A n \in ActionNames \ {m.Name} : actions'[n] = actions[n]
      ]_vars

\* the aggregator has drained successes and errors of one action, some of
\* them with bytes, among them an error-free event outside [200, 400)
C11_Witness ==
    \E n \in ActionNames :
        /\ actions[n].TotalOK >= 1
        /\ actions[n].TotalErrors >= 1
        /\ actions[n].BytesTotal >= 1
        /\ apc = "update" /\ cur.Error = "" /\ cur.StatusCode = 400
\* the worker has just built the event of a received response
ResponseEmitted == wpc[1] = "inflight" /\ wpc'[1] = "record" /\ pend'[1].StatusCode # 0

\* the action the worker executed last
Executed == ProbeActions[lastExec[1]]

\* an event whose error descriptor is set is counted as ERR, not as OK
ErrorEventCountedERR ==
    (apc = "update" /\ apc' = "recv" /\ cur.Error # "") =>
        /\ actions'[cur.Name].TotalErrors = actions[cur.Name].TotalErrors + 1
        /\ actions'[cur.Name].TotalOK = actions[cur.Name].TotalOK

\* C12 (as stated): when the expected status is non-zero and the observed
\* status differs from it, the emitted event carries a non-empty error
\* descriptor and is counted as ERR, never as OK; when the expected status is
\* 0 there is no status check.
C12_NonZeroExpectChecked ==
    [][ /\ ResponseEmitted =>
              /\ (Executed'.ExpectStatus # 0
                   /\ pend'[1].StatusCode # Executed'.ExpectStatus)
                     => pend'[1].Error # ""
              /\ Executed'.ExpectStatus = 0 => pend'[1].Error = ""
        /\ ErrorEventCountedERR
      ]_vars

\* C12 (amended): when the expected status is positive and the observed
\* status differs from it, the emitted event carries a non-empty error
\* descriptor and is counted as ERR, never as OK; when the expected status is
\* 0 or negative, or equals the observed status, there is no status error.
C12_PositiveExpectChecked ==
    [][ /\ ResponseEmitted =>
              /\ (Executed'.ExpectStatus > 0
                   /\ pend'[1].StatusCode # Executed'.ExpectStatus)
                     => pend'[1].Error # ""
              /\ (Executed'.ExpectStatus <= 0
                   \/ pend'[1].StatusCode = Executed'.ExpectStatus)
                     => pend'[1].Error = ""
        /\ ErrorEventCountedERR
      ]_vars

\* a response whose status differs from a positive expected status has been
\* drained and counted as an error, and the worker now holds the event of an
\* action with a negative expected status
C12_Witness ==
    /\ actions["Submit"].TotalErrors >= 1
    /\ actions["Submit"].TotalOK = 0
    /\ wpc[1] = "record"
    /\ pend[1].StatusCode = 200
    /\ Executed.ExpectStatus < 0
\* ======================= strings, net/url, net/http ========================
\* strings.Contains for a word of the model
Contains(s, word) == \E i \in 1..Len(s) : s[i] = word

\* strings.ReplaceAll for a word of the model
RECURSIVE ReplaceAll(_, _, _)
ReplaceAll(s, old, new) ==
    IF s = Empty
    THEN Empty
    ELSE (IF Head(s) = old THEN new ELSE << Head(s) >>)
         \o ReplaceAll(Tail(s), old, new)

\* url.QueryEscape of one character: letters and digits stay, a space
\* becomes "+", anything else becomes its %XX code
EscapeChar(c) ==
    CASE c = "+" -> << "%", "2", "B" >>
      [] c = "/" -> << "%", "2", "F" >>
      [] c = "=" -> << "%", "3", "D" >>
      [] c = " " -> << "+" >>
      [] OTHER   -> << c >>

\* url.QueryEscape
RECURSIVE QueryEscape(_)
QueryEscape(s) ==
    IF s = Empty THEN Empty ELSE EscapeChar(Head(s)) \o QueryEscape(Tail(s))

\* strconv.Itoa for a user id
DecimalDigits == << "0", "1", "2", "3", "4", "5", "6", "7", "8", "9" >>

RECURSIVE Itoa(_)
Itoa(n) ==
    IF n < 10
    THEN << DecimalDigits[n + 1] >>
    ELSE Itoa(n \div 10) \o << DecimalDigits[(n % 10) + 1] >>

\* http.CanonicalHeaderKey, as Header.Set applies it to its key
CanonicalHeaderKey(key) ==
    CASE key \in {"Content-Type", "content-type"}       -> "Content-Type"
      [] key \in {"Accept-Encoding", "accept-encoding"} -> "Accept-Encoding"
      [] key \in {"X-CSRF-Token", "x-csrf-token"}       -> "X-Csrf-Token"
      [] key \in {"Authorization", "authorization"}     -> "Authorization"

\* req.Header.Set(key, value)
HeaderSet(h, key, value) == [h EXCEPT ![CanonicalHeaderKey(key)] = value]

\* ======================= script.Action.ExpandTemplates =====================
\* expandString: {{userId}} becomes the decimal user id. (The texts of this
\* model hold none of the other markers expandString looks for.)
ExpandString(s, userID) == ReplaceAll(s, "{{userId}}", Itoa(userID))

\* ExpandTemplates: URL, JSON body, body and every header value
ExpandTemplates(a, userID) ==
    [URL      |-> ExpandString(a.URL, userID),
     JSONBody |-> ExpandString(a.JSONBody, userID),
     Body     |-> ExpandString(a.Body, userID),
     Headers  |-> [i \in 1..Len(a.Headers) |->
                    << a.Headers[i][1], ExpandString(a.Headers[i][2], userID) >>]]

\* ======================= util.CredentialsManager ===========================
\* a lookup that hands out the entry the round-robin cursor points at
GetCredentialsAtCursor(pool, userID) == pool.credentials[pool.current + 1]

\* GetCredentialsForUser: index := userID % len(cm.credentials), on the
\* 0-based slice
GetCredentialsForUser(pool, userID) ==
    pool.credentials[(userID % Len(pool.credentials)) + 1]

\* ======================= Worker.executeAction: the request =================
\* replaceCredentialPlaceholders
ReplaceCredentialPlaceholders(content, creds) ==
    IF content = Empty
    THEN content
    ELSE ReplaceAll(
           ReplaceAll(
             ReplaceAll(content, "{{username}}", creds.Username),
             "{{password}}", creds.Password),
           "{{email}}", creds.Username)

\* lines 160-167: templates expanded, then credential placeholders replaced
\* in Body and JSONBody when a credentials manager is present
ExpandedAction(a, id, pool) ==
    LET e == ExpandTemplates(a, id)
    IN  IF pool # NoPool
        THEN [e EXCEPT
                !.Body = ReplaceCredentialPlaceholders(
                           @, GetCredentialsForUser(pool, id)),
                !.JSONBody = ReplaceCredentialPlaceholders(
                               @, GetCredentialsForUser(pool, id))]
        ELSE e

\* lines 172-184: the JSON body if there is one, else the form body with
\* the CSRF placeholder replaced when the worker holds a token
RequestBody(e, csrfToken) ==
    IF e.JSONBody # Empty
    THEN e.JSONBody
    ELSE IF e.Body # Empty
         THEN (IF csrfToken # Empty
               THEN ReplaceAll(e.Body, "CSRF_TOKEN_PLACEHOLDER",
                               QueryEscape(csrfToken))
               ELSE e.Body)
         ELSE Empty

\* lines 198-204: the action's headers, in the order of the range loop
RECURSIVE ActionHeaders(_, _)
ActionHeaders(h, entries) ==
    IF entries = << >>
    THEN h
    ELSE ActionHeaders(
           IF Head(entries)[1] = "Accept-Encoding"
           THEN h
           ELSE HeaderSet(h, Head(entries)[1], Head(entries)[2]),
           Tail(entries))

\* lines 207-209: the persistent session headers (the map holds a name only
\* once a response has set it)
SessionHeaders(h, sessionHeaders) ==
    LET h1 == IF sessionHeaders["X-CSRF-Token"] # Empty
              THEN HeaderSet(h, "X-CSRF-Token", sessionHeaders["X-CSRF-Token"])
              ELSE h
    IN  IF sessionHeaders["Authorization"] # Empty
        THEN HeaderSet(h1, "Authorization", sessionHeaders["Authorization"])
        ELSE h1

\* strings.SplitN(loginHeader, ":", 2): the position of the first colon
\* (0: there is none)
FirstColon(s) ==
    IF Contains(s, ":")
    THEN CHOOSE i \in 1..Len(s) :
           s[i] = ":" /\ \A j \in 1..(i - 1) : s[j] # ":"
    ELSE 0

\* lines 107-112 and 217-222: the login header, when it has two parts; the
\* name is the one word before the colon
LoginHeader(h, loginHeader) ==
    IF loginHeader # Empty /\ FirstColon(loginHeader) = 2
    THEN HeaderSet(h, loginHeader[1], SubSeq(loginHeader, 3, Len(loginHeader)))
    ELSE h

\* lines 192-222: the request header
RequestHeader(e, s, loginHeader) ==
    LET h1 == IF e.JSONBody # Empty
              THEN HeaderSet(NoHeader, "Content-Type", << "application/json" >>)
              ELSE NoHeader
        h2 == ActionHeaders(h1, e.Headers)
        h3 == SessionHeaders(h2, s.sessionHeaders)
        h4 == IF s.csrfToken # Empty
              THEN HeaderSet(h3, "X-CSRF-Token", s.csrfToken)
              ELSE h3
    IN  LoginHeader(h4, loginHeader)

\* the request client.Do sends for action a: worker id, session state s;
\* the cookie jar adds the worker's cookies
BuildRequest(a, id, s, pool, loginHeader) ==
    LET e == ExpandedAction(a, id, pool)
    IN  [Action  |-> a,
         URL     |-> e.URL,
         Header  |-> RequestHeader(e, s, loginHeader),
         Body    |-> RequestBody(e, s.csrfToken),
         Cookies |-> s.jar]
\* ======================= responses =========================================
\* the response a worker holds while it holds none
NoResponse == NewSession.resp

\* The HTML of a response body is the sequence of its tags that carry a
\* token value, in document order:
\*   "meta"  <meta name="csrf-token" content="V"
\*   "input" <input ... name="authenticity_token" ... value="V"
\*   "attr"  authenticity_token" ... value="V" in a tag that is no <input
\* with V not empty (the three patterns capture [^"]+).
TagKinds == {"meta", "input", "attr"}

\* the first tag of the body of one of the kinds (0: no such tag):
\* FindStringSubmatch returns the leftmost match
FirstTag(body, kinds) ==
    IF \E i \in 1..Len(body) : body[i].kind \in kinds
    THEN CHOOSE i \in 1..Len(body) :
           /\ body[i].kind \in kinds
           /\ \A j \in 1..(i - 1) : body[j].kind \notin kinds
    ELSE 0

\* what the three patterns match: metaPattern a meta tag, formPattern an
\* input tag, authPattern the attribute pair of any tag, an input included
MetaPattern(body) == FirstTag(body, {"meta"})
FormPattern(body) == FirstTag(body, {"input"})
AuthPattern(body) == FirstTag(body, {"input", "attr"})

\* an extraction that tries the most general pattern first
ExtractGenericFirst(csrfToken, body) ==
    IF AuthPattern(body) # 0 THEN body[AuthPattern(body)].value
    ELSE IF MetaPattern(body) # 0 THEN body[MetaPattern(body)].value
    ELSE csrfToken

\* extractCSRFTokenFromHTML: the worker's token after the call
ExtractCSRFTokenFromHTML(csrfToken, body) ==
    IF MetaPattern(body) # 0 THEN body[MetaPattern(body)].value
    ELSE IF FormPattern(body) # 0 THEN body[FormPattern(body)].value
    ELSE IF AuthPattern(body) # 0 THEN body[AuthPattern(body)].value
    ELSE csrfToken

\* an extraction that keeps the value it stored first
ExtractSessionHeadersOnce(s, header) ==
    LET s1 == IF header["X-CSRF-Token"] # Empty
                 /\ s.sessionHeaders["X-CSRF-Token"] = Empty
              THEN [s EXCEPT
                      !.sessionHeaders["X-CSRF-Token"] = header["X-CSRF-Token"],
                      !.csrfToken = header["X-CSRF-Token"]]
              ELSE s
    IN  IF header["Authorization"] # Empty
           /\ s.sessionHeaders["Authorization"] = Empty
        THEN [s1 EXCEPT
                !.sessionHeaders["Authorization"] = header["Authorization"]]
        ELSE s1

\* extractSessionHeaders: the session state after the call
ExtractSessionHeaders(s, header) ==
    LET s1 == IF header["X-CSRF-Token"] # Empty
              THEN [s EXCEPT
                      !.sessionHeaders["X-CSRF-Token"] = header["X-CSRF-Token"],
                      !.csrfToken = header["X-CSRF-Token"]]
              ELSE s
    IN  IF header["Authorization"] # Empty
        THEN [s1 EXCEPT
                !.sessionHeaders["Authorization"] = header["Authorization"]]
        ELSE s1

\* line 239: the URL names a login page
IsLoginPage(url) == Contains(url, "sign_in") \/ Contains(url, "login")

\* ======================= one worker's exchanges ============================
\* Worker.Run: the optional login step starts (login builds its request:
\* a POST without body that carries the login header only)
SessLogin(w) ==
    /\ sess[w].pc = "start" /\ cfg.LoginURL
    /\ req' = [req EXCEPT ![w] =
                 [Action  |-> NoAction,
                  URL     |-> << "/", "login" >>,
                  Header  |-> LoginHeader(NoHeader, cfg.LoginHeader),
                  Body    |-> Empty,
                  Cookies |-> sess[w].jar]]
    /\ sess' = [sess EXCEPT ![w].pc = "login"]
    /\ UNCHANGED << run, units, cred, dly >>

\* Worker.Run without a login URL goes straight to the scenario
SessNoLogin(w) ==
    /\ sess[w].pc = "start" /\ ~cfg.LoginURL
    /\ sess' = [sess EXCEPT ![w].pc = "idle"]
    /\ UNCHANGED << run, units, req, cred, dly >>

\* client.Do returns a response r; the cookie jar has taken its cookie
SessResponse(w, r) ==
    /\ sess[w].pc \in {"login", "inflight"}
    /\ sess' = [sess EXCEPT
                  ![w].pc = IF sess[w].pc = "login" THEN "loginDone" ELSE "received",
                  ![w].resp = r,
                  ![w].jar = IF r.SetCookie # Empty THEN r.SetCookie ELSE @]
    /\ UNCHANGED << run, units, req, cred, dly >>

\* client.Do returns an error: login fails and Run returns; executeAction
\* records the error and returns to executeScript
SessClientError(w) ==
    /\ sess[w].pc \in {"login", "inflight"}
    /\ sess' = [sess EXCEPT
                  ![w].pc = IF sess[w].pc = "login" THEN "returned" ELSE "idle"]
    /\ UNCHANGED << run, units, req, cred, dly >>

\* login, lines 120-127, for a status below 400: extractSessionHeaders only
SessLoginDone(w) ==
    /\ sess[w].pc = "loginDone"
    /\ sess' = [sess EXCEPT
                  ![w] = [ExtractSessionHeaders(@, @.resp.Header) EXCEPT
                            !.pc = "idle", !.resp = NoResponse]]
    /\ UNCHANGED << run, units, req, cred, dly >>

\* login, lines 120-122: a status of 400 or more fails the login
SessLoginRefused(w) ==
    /\ sess[w].pc = "loginDone"
    /\ sess' = [sess EXCEPT ![w].pc = "returned", ![w].resp = NoResponse]
    /\ UNCHANGED << run, units, req, cred, dly >>

\* executeAction up to client.Do: the request for action a leaves
SessSend(w, a) ==
    /\ sess[w].pc = "idle"
    /\ req' = [req EXCEPT
                 ![w] = BuildRequest(a, w, sess[w], cred.pool, cfg.LoginHeader)]
    /\ sess' = [sess EXCEPT ![w].pc = "inflight"]
    /\ UNCHANGED << run, units, cred, dly >>

\* an extraction into session state that all workers share
SessExtractShared(w) ==
    /\ sess[w].pc = "received"
    /\ LET r  == sess[w].resp
           s1 == IF IsLoginPage(req[w].URL)
                 THEN [sess[w] EXCEPT
                         !.csrfToken = ExtractCSRFTokenFromHTML(@, r.Body)]
                 ELSE sess[w]
           s2 == ExtractSessionHeaders(s1, r.Header)
       IN  sess' = [v \in Workers |->
                      IF v = w
                      THEN [s2 EXCEPT !.pc = "idle", !.resp = NoResponse]
                      ELSE [sess[v] EXCEPT
                              !.csrfToken = s2.csrfToken,
                              !.sessionHeaders = s2.sessionHeaders]]
    /\ UNCHANGED << run, units, req, cred, dly >>

\* executeAction, lines 235-244: the HTML extraction on a login page, then
\* extractSessionHeaders
SessExtract(w) ==
    /\ sess[w].pc = "received"
    /\ LET r  == sess[w].resp
           s1 == IF IsLoginPage(req[w].URL)
                 THEN [sess[w] EXCEPT
                         !.csrfToken = ExtractCSRFTokenFromHTML(@, r.Body)]
                 ELSE sess[w]
       IN  sess' = [sess EXCEPT
                      ![w] = [ExtractSessionHeaders(s1, r.Header) EXCEPT
                                !.pc = "idle", !.resp = NoResponse]]
    /\ UNCHANGED << run, units, req, cred, dly >>
\* ---- what scenarios, configurations and servers are explored -------------
\* tags of a response body explored at most
MaxTags == 2

\* the run variables while one part of the program is studied on its own:
\* as orchestrator.New leaves them, for configuration c
RunFixed(c) ==
    /\ cfg = c
    /\ proc = "running"
    /\ opc = "start"
    /\ ctxDone = FALSE
    /\ wpc = [w \in Workers |-> "unused"]
    /\ idx = [w \in Workers |-> 1]
    /\ tokens = [w \in Workers |-> 0]
    /\ loginErr = [w \in Workers |-> FALSE]
    /\ lastExec = [w \in Workers |-> 0]
    /\ pend = [w \in Workers |-> NoMetric]
    /\ responses = 0
    /\ metrics = << >>
    /\ closed = FALSE
    /\ apc = "unstarted"
    /\ cur = NoMetric
    /\ actions = [n \in ActionNames |-> NoStats]
    /\ printed = NoReport
    /\ saved = NoReport
    /\ submitted = [n \in ActionNames |-> 0]
    /\ dropped = [n \in ActionNames |-> 0]

\* tokens the server issues to worker w; its first character tells for whom
\* it was issued, and "+" is a character QueryEscape rewrites
TokensFor(w) == { Itoa(w), Itoa(w) \o << "+" >> }

\* response bodies for worker w: up to MaxTags tags
HtmlBodies(w) ==
    UNION { [1..n -> [kind : TagKinds, value : TokensFor(w)]] : n \in 0..MaxTags }

\* --login-hdr values: none, two well-formed ones, one without a colon
LoginHeaders ==
    { Empty,
      << "Authorization", ":", "L" >>,
      << "X-CSRF-Token", ":", "L" >>,
      << "L" >> }

\* configurations of a session study
SessConfigs(loginHeaders) ==
    [Users : {1}, RPS : {1}, LoginURL : BOOLEAN, OutputFile : {FALSE},
     LoginHeader : loginHeaders]

\* bodies of the scenario: a form body and a JSON body with the placeholder
FormBody == << "t", "=", "CSRF_TOKEN_PLACEHOLDER" >>
JsonBody == << "{", "CSRF_TOKEN_PLACEHOLDER", "}" >>

\* ======================= requests of one worker ============================
\* actions: a login page or another URL; no header, or one header of the
\* names the other origins also set, in either spelling; no body, a form
\* body or a JSON body
ReqActions ==
    { [URL |-> u, Headers |-> h, Body |-> b[1], JSONBody |-> b[2]] :
        u \in { << "/", "login" >>, << "/", "api" >> },
        h \in { << >>,
                << << "Accept-Encoding", << "gzip" >> >> >>,
                << << "accept-encoding", << "gzip" >> >> >>,
                << << "x-csrf-token", << "A" >> >> >>,
                << << "Authorization", << "A" >> >> >> },
        b \in { << Empty, Empty >>, << FormBody, Empty >>,
                << Empty, JsonBody >> } }

\* responses: a token in the body, in the X-CSRF-Token header, or none; an
\* Authorization header or none
ReqResponses ==
    { [Body |-> b, Header |-> [n \in SessionHeaderNames |->
                                 IF n = "X-CSRF-Token" THEN x ELSE z],
       SetCookie |-> Empty] :
        b \in { << >> } \cup { << [kind |-> "meta", value |-> t] >> :
                                 t \in TokensFor(1) },
        x \in { Empty } \cup TokensFor(1),
        z \in { Empty, << "B" >> } }

ReqInit ==
    /\ \E c \in SessConfigs(LoginHeaders) : RunFixed(c)
    /\ AsideIdle

ReqNext ==
    \/ SessLogin(1)
    \/ SessNoLogin(1)
    \/ \E r \in ReqResponses : SessResponse(1, r)
    \/ SessClientError(1)
    \/ SessLoginDone(1)
    \/ SessLoginRefused(1)
    \/ \E a \in ReqActions : SessSend(1, a)
    \/ SessExtract(1)

ReqSpec == ReqInit /\ [][ReqNext]_vars

\* ======================= CSRF extraction of one worker =====================
\* actions: a GET of a login page and of another page
HtmlActions ==
    { [URL |-> u, Headers |-> << >>, Body |-> Empty, JSONBody |-> Empty] :
        u \in { << "/", "sign_in" >>, << "/", "api" >> } }

\* responses: every body of up to MaxTags tags, with or without an
\* X-CSRF-Token header
HtmlResponses ==
    { [Body |-> b, Header |-> [n \in SessionHeaderNames |->
                                 IF n = "X-CSRF-Token" THEN x ELSE Empty],
       SetCookie |-> Empty] :
        b \in HtmlBodies(1), x \in { Empty } \cup TokensFor(1) }

HtmlInit ==
    /\ \E c \in SessConfigs({Empty}) : RunFixed(c)
    /\ AsideIdle

HtmlNext ==
    \/ SessLogin(1)
    \/ SessNoLogin(1)
    \/ \E r \in HtmlResponses : SessResponse(1, r)
    \/ SessClientError(1)
    \/ SessLoginDone(1)
    \/ SessLoginRefused(1)
    \/ \E a \in HtmlActions : SessSend(1, a)
    \/ SessExtract(1)

HtmlSpec == HtmlInit /\ [][HtmlNext]_vars
\* worker w hands a request to client.Do in this step
Sends(w) == sess[w].pc = "idle" /\ sess'[w].pc = "inflight"

\* the body the action declares for the request: the JSON body if there is
\* one, else the form body
DeclaredBody(a) == IF a.JSONBody # Empty THEN a.JSONBody ELSE a.Body

\* C13: while a worker holds a CSRF token, every request it sends carries
\* X-CSRF-Token equal to the token it holds at that moment (so never an
\* older one), and its body is the declared body with every
\* CSRF_TOKEN_PLACEHOLDER replaced by the URL-encoded token: no body leaves
\* with the literal placeholder.
C13_TokenOnEveryRequest ==
    [][ \A w \in Workers :
          (Sends(w) /\ sess[w].csrfToken # Empty) =>
              /\ req'[w].Header["X-Csrf-Token"] = sess[w].csrfToken
              /\ req'[w].Body =
                    ReplaceAll(DeclaredBody(req'[w].Action),
                               "CSRF_TOKEN_PLACEHOLDER",
                               QueryEscape(sess[w].csrfToken))
              /\ ~Contains(req'[w].Body, "CSRF_TOKEN_PLACEHOLDER")
      ]_vars
\* worker w finishes, in this step, the action whose response it holds
Completes(w) == sess[w].pc = "received" /\ sess'[w].pc = "idle"

\* some pattern matches the body
AnyPatternMatches(body) ==
    MetaPattern(body) # 0 \/ FormPattern(body) # 0 \/ AuthPattern(body) # 0

\* the capture of the first pattern, in the order meta tag, input named
\* authenticity_token, generic authenticity_token...value, that matches
FirstCapture(body) ==
    CASE MetaPattern(body) # 0 -> body[MetaPattern(body)].value
      [] MetaPattern(body) = 0 /\ FormPattern(body) # 0
           -> body[FormPattern(body)].value
      [] MetaPattern(body) = 0 /\ FormPattern(body) = 0
           -> body[AuthPattern(body)].value

\* C14 (as stated): after a worker completes an action whose URL contains
\* sign_in or login, its CSRF token is the capture of the first of the three
\* patterns that matches the response body; when none matches the token is
\* unchanged.
C14_TokenIsFirstCapture ==
    [][ \A w \in Workers :
          (Completes(w) /\ IsLoginPage(req[w].URL)) =>
              sess'[w].csrfToken =
                 IF AnyPatternMatches(sess[w].resp.Body)
                 THEN FirstCapture(sess[w].resp.Body)
                 ELSE sess[w].csrfToken
      ]_vars

\* C14 (amended): after a worker completes an action whose URL contains
\* sign_in or login, its CSRF token is the response's X-CSRF-Token header
\* when the response carries one; otherwise it is the capture of the first
\* of the three patterns that matches the response body; when there is no
\* such header and no pattern matches, the token is unchanged.
C14_TokenIsHeaderElseFirstCapture ==
    [][ \A w \in Workers :
          (Completes(w) /\ IsLoginPage(req[w].URL)) =>
              sess'[w].csrfToken =
                 IF sess[w].resp.Header["X-CSRF-Token"] # Empty
                 THEN sess[w].resp.Header["X-CSRF-Token"]
                 ELSE IF AnyPatternMatches(sess[w].resp.Body)
                      THEN FirstCapture(sess[w].resp.Body)
                      ELSE sess[w].csrfToken
      ]_vars

\* a worker that holds a token has fetched a login page whose body carries
\* an input tag with one value and, after it, a meta tag with another, and
\* no X-CSRF-Token header: the extraction is about to run
C14_Witness ==
    /\ sess[1].pc = "received"
    /\ IsLoginPage(req[1].URL)
    /\ sess[1].csrfToken # Empty
    /\ sess[1].resp.Header["X-CSRF-Token"] = Empty
    /\ Len(sess[1].resp.Body) = 2
    /\ sess[1].resp.Body[1].kind = "input"
    /\ sess[1].resp.Body[2].kind = "meta"
    /\ sess[1].resp.Body[1].value # sess[1].resp.Body[2].value
    /\ sess[1].csrfToken # sess[1].resp.Body[2].value
\* the value the action's headers declare for header name n, whatever the
\* spelling of the name (Empty: none)
Declared(a, n) ==
    IF \E i \in 1..Len(a.Headers) : CanonicalHeaderKey(a.Headers[i][1]) = n
    THEN a.Headers[CHOOSE i \in 1..Len(a.Headers) :
                     CanonicalHeaderKey(a.Headers[i][1]) = n][2]
    ELSE Empty

\* the value the session headers hold for header name n (Empty: none)
FromSession(s, n) ==
    IF \E k \in SessionHeaderNames : CanonicalHeaderKey(k) = n
    THEN s.sessionHeaders[CHOOSE k \in SessionHeaderNames :
                            CanonicalHeaderKey(k) = n]
    ELSE Empty

\* the value the configured name:value login header gives header name n
\* (Empty: none)
FromLogin(lh, n) ==
    IF Len(lh) >= 3 /\ lh[2] = ":" /\ CanonicalHeaderKey(lh[1]) = n
    THEN SubSeq(lh, 3, Len(lh))
    ELSE Empty

\* the value of the latest origin that supplies header name n, in the order
\* action, session headers, X-CSRF-Token from the token, login header; the
\* action never supplies Accept-Encoding
LatestOrigin(a, s, lh, n) ==
    IF FromLogin(lh, n) # Empty THEN FromLogin(lh, n)
    ELSE IF n = "X-Csrf-Token" /\ s.csrfToken # Empty THEN s.csrfToken
    ELSE IF FromSession(s, n) # Empty THEN FromSession(s, n)
    ELSE IF n # "Accept-Encoding" THEN Declared(a, n)
    ELSE Empty

\* C15: the value sent for a header name is the one of the latest origin
\* that supplies it, in the order action-declared headers, session headers,
\* X-CSRF-Token from the current token (if non-empty), login header; and
\* an Accept-Encoding header declared by the action is never sent.
C15_LatestOriginWins ==
    [][ \A w \in Workers :
          Sends(w) =>
             \A n \in CanonicalNames \ {"Content-Type"} :
                req'[w].Header[n] =
                   LatestOrigin(req'[w].Action, sess[w], cfg.LoginHeader, n)
      ]_vars
\* ======================= two workers side by side ==========================
\* the scenario: a login page fetched with a form body
IsoActions ==
    { [URL |-> << "/", "login" >>, Headers |-> << >>, Body |-> FormBody,
       JSONBody |-> Empty] }

\* what the server gives worker w: nothing; a token in the body; a token
\* and an Authorization value in the headers; a cookie. Every value names
\* the worker it was given to.
IsoResponses(w) ==
    LET none == [n \in SessionHeaderNames |-> Empty]
    IN  { [Body |-> << >>, Header |-> none, SetCookie |-> Empty],
          [Body |-> << [kind |-> "meta", value |-> Itoa(w)] >>,
           Header |-> none, SetCookie |-> Empty],
          [Body |-> << >>,
           Header |-> [n \in SessionHeaderNames |->
                         IF n = "X-CSRF-Token" THEN Itoa(w)
                                               ELSE << "B" >> \o Itoa(w)],
           SetCookie |-> Empty],
          [Body |-> << >>, Header |-> none,
           SetCookie |-> << "c" >> \o Itoa(w)] }

IsoInit ==
    /\ \E c \in SessConfigs({Empty}) : RunFixed(c)
    /\ AsideIdle

IsoNext ==
    \E w \in Workers :
        \/ SessLogin(w)
        \/ SessNoLogin(w)
        \/ \E r \in IsoResponses(w) : SessResponse(w, r)
        \/ SessClientError(w)
        \/ SessLoginDone(w)
        \/ SessLoginRefused(w)
        \/ \E a \in IsoActions : SessSend(w, a)
        \/ SessExtract(w)

IsoSpec == IsoInit /\ [][IsoNext]_vars

\* the session state of a worker: cookie jar, session headers, CSRF token
SessionState(s) ==
    [jar |-> s.jar, sessionHeaders |-> s.sessionHeaders,
     csrfToken |-> s.csrfToken]

\* the text holds a value the server gave worker i
GivenTo(text, i) == \E k \in 1..Len(text) : text[k] = Itoa(i)[1]

\* the request carries, as a cookie, in a header or in the body, a value
\* the server gave worker i
CarriesValueOf(r, i) ==
    \/ GivenTo(r.Cookies, i)
    \/ GivenTo(r.Body, i)
    \/ \E n \in CanonicalNames : GivenTo(r.Header[n], i)

\* C19: session state is per worker. A step in which worker i takes in a
\* response changes only worker i's cookie jar, session headers and CSRF
\* token, whatever the other worker is doing; and a request of worker j
\* never carries a cookie, session header or token given to another worker.
C19_SessionPerWorker ==
    [][ \A i \in Workers : \A j \in Workers \ {i} :
          /\ (sess'[i] # sess[i]) =>
                SessionState(sess'[j]) = SessionState(sess[j])
          /\ (req'[j] # req[j]) => ~CarriesValueOf(req'[j], i)
      ]_vars

\* both workers hold a token, session headers and a cookie of their own,
\* worker 2 has a request in flight that carries its token in header and
\* body and its cookie, and worker 1 is about to take in a response
C19_Witness ==
    /\ \A w \in Workers :
          /\ sess[w].csrfToken = Itoa(w)
          /\ sess[w].sessionHeaders["Authorization"] # Empty
          /\ sess[w].jar # Empty
    /\ sess[1].pc = "received"
    /\ sess[2].pc = "inflight"
    /\ CarriesValueOf(req[2], 2)
    /\ GivenTo(req[2].Body, 2)
    /\ GivenTo(req[2].Cookies, 2)
\* ======================= the credential pool ===============================
\* lines of the credentials file explored at most, and user ids (--users)
MaxCreds == 3
MaxUsers == 4

\* the credentials on line k of a file without blank and comment lines
LineCredentials(k) ==
    [Username |-> << "u" >> \o Itoa(k), Password |-> << "p" >> \o Itoa(k)]

\* LoadCredentials for a file of n lines: the lines in file order, cursor 0
LoadCredentials(n) ==
    [credentials |-> [k \in 1..n |-> LineCredentials(k)], current |-> 0]

\* the credential placeholders
CredentialPlaceholders == {"{{username}}", "{{password}}", "{{email}}"}

\* actions with a credential placeholder in the URL, in a header value, in
\* the form body and in the JSON body
CredActions ==
    { [URL |-> << "/", "{{username}}" >>, Headers |-> << >>,
       Body |-> Empty, JSONBody |-> Empty],
      [URL |-> << "/" >>,
       Headers |-> << << "Authorization", << "{{password}}" >> >> >>,
       Body |-> Empty, JSONBody |-> Empty],
      [URL |-> << "/" >>, Headers |-> << >>,
       Body |-> << "{{username}}", "&", "{{password}}", "&", "{{email}}",
                   "&", "{{username}}" >>,
       JSONBody |-> Empty],
      [URL |-> << "/" >>, Headers |-> << >>, Body |-> Empty,
       JSONBody |-> << "{", "{{email}}", "{{password}}", "}" >>] }

CredInit ==
    /\ RunFixed([Users |-> 1, RPS |-> 1, LoginURL |-> FALSE,
                 OutputFile |-> FALSE, LoginHeader |-> Empty])
    /\ sess = SessIdle
    /\ req = ReqIdle
    /\ \E n \in 1..MaxCreds : cred = [pool |-> LoadCredentials(n), call |-> NoCall]
    /\ dly = DlyIdle
    /\ UnitsIdle

\* executeAction line 164, in the worker of user u
CredForUser(u) ==
    /\ cred' = [cred EXCEPT
                  !.call = [userID |-> u,
                            result |-> GetCredentialsForUser(cred.pool, u)]]
    /\ UNCHANGED << run, units, sess, req, dly >>

\* GetCredentials: the entry under the cursor is handed out and the cursor
\* moves on
GetCredentials ==
    /\ cred' = [cred EXCEPT
                  !.pool.current = (@ + 1) % Len(cred.pool.credentials)]
    /\ UNCHANGED << run, units, sess, req, dly >>

CredNext ==
    \/ \E u \in 1..MaxUsers : CredForUser(u)
    \/ GetCredentials
    \/ \E w \in Workers :
          \/ SessNoLogin(w)
          \/ \E a \in CredActions : SessSend(w, a)
          \/ SessClientError(w)

CredSpec == CredInit /\ [][CredNext]_vars

\* a GetCredentialsForUser call returns in this step
Looked == cred'.call # cred.call

C17_UserOneGetsLineOne ==
    cred.call.userID # 0 =>
        cred.call.result =
           LineCredentials(((cred.call.userID - 1) % Len(cred.pool.credentials)) + 1)

\* the text holds a credential placeholder
Unexpanded(text) == \E k \in 1..Len(text) : text[k] \in CredentialPlaceholders

\* C18: with credentials loaded, no request leaves with {{username}},
\* {{password}} or {{email}} in its URL, in a header value or in its body.
C18_NoPlaceholderSent ==
    [][ \A w \in Workers :
          (Sends(w) /\ cred.pool # NoPool) =>
              /\ ~Unexpanded(req'[w].URL)
              /\ ~Unexpanded(req'[w].Body)
              /\ \A n \in CanonicalNames : ~Unexpanded(req'[w].Header[n])
      ]_vars
\* ======================= executeScript against the clock ===================
\* One worker walking a scenario whose actions carry delay specifications,
\* with a clock that counts seconds. dly holds the worker's position (pc),
\* the index i of the range loop, the clock (now), the cancellation scope
\* (ctxDone), the rate limiter (rate, tokens, lastTime), the instant the
\* time.After timer of the delay select fires (timer), and what was
\* observed: when the last executeAction returned (ended), the delay
\* GetDelay gave for it (d), and whether a delay select was left through
\* its ctx.Done case before the timer was due (cut).
MaxTime == 4

\* a field that holds a number, when none was given
Unset == -1

\* time.ParseDuration for the literals of this model: digits and then "s"
\* or "ms"; anything else is an error. The clock of this study counts
\* seconds and its literals are whole seconds, so d is in seconds.
ParseDuration(text) ==
    LET n      == Len(text)
        shaped == /\ n >= 2
                  /\ text[n] \in {"s", "ms"}
                  /\ \A i \in 1..(n - 1) :
                        \E k \in 1..10 : DecimalDigits[k] = text[i]
        value[i \in 0..n] ==
            IF i = 0 THEN 0
            ELSE value[i - 1] * 10
                   + ((CHOOSE k \in 1..10 : DecimalDigits[k] = text[i]) - 1)
    IN  [ok |-> shaped,
         d  |-> IF ~shaped THEN 0
                ELSE IF text[n] = "s" THEN value[n - 1]
                ELSE value[n - 1] \div 1000]

\* yaml fields delay, delay_min, delay_max of an action of the study
DelayFields(delay, min, max) == [Delay |-> delay, DelayMin |-> min, DelayMax |-> max]

\* scenarios: fixed delays; a random range; a range whose maximum does not
\* exceed its minimum; actions without a delay; a delay written with the
\* {{randDelay min max}} template (in milliseconds)
DelayScripts ==
    { << DelayFields(<< "2", "s" >>, Empty, Empty),
         DelayFields(Empty, Empty, Empty) >>,
      << DelayFields(Empty, << "1", "s" >>, << "2", "0", "0", "0", "ms" >>),
         DelayFields(<< "1", "s" >>, Empty, Empty) >>,
      << DelayFields(Empty, << "1", "s" >>, << "1", "s" >>) >>,
      << DelayFields(<< "{{randDelay", " ", "1", "0", "0", "0", " ",
                        "2", "0", "0", "0", "}}", "ms" >>, Empty, Empty),
         DelayFields(Empty, Empty, Empty) >> }

\* --rps values of the delay study: one token a second, and plenty
DelayRates == {1, 3}

\* GetDelay: the durations it can return. A fixed delay that parses is
\* returned as it is; otherwise a range whose ends parse, with max > min,
\* gives any value from min to max; anything else gives 0.
GetDelay(a) ==
    IF a.Delay # Empty /\ ParseDuration(a.Delay).ok
    THEN {ParseDuration(a.Delay).d}
    ELSE IF /\ a.DelayMin # Empty /\ a.DelayMax # Empty
            /\ ParseDuration(a.DelayMin).ok /\ ParseDuration(a.DelayMax).ok
            /\ ParseDuration(a.DelayMax).d > ParseDuration(a.DelayMin).d
         THEN ParseDuration(a.DelayMin).d .. ParseDuration(a.DelayMax).d
         ELSE {0}

DlyInit ==
    /\ RunFixed([Users |-> 1, RPS |-> 1, LoginURL |-> FALSE,
                 OutputFile |-> FALSE, LoginHeader |-> Empty])
    /\ sess = SessIdle
    /\ req = ReqIdle
    /\ cred = CredIdle
    /\ UnitsIdle
    /\ \E sc \in DelayScripts, r \in DelayRates :
          dly = [script |-> sc, pc |-> "loop", i |-> 1, now |-> 0,
                 ctxDone |-> FALSE, rate |-> r, tokens |-> r, lastTime |-> 0,
                 timer |-> 0, ended |-> 0, d |-> 0, cut |-> FALSE]

DlyUnchanged == UNCHANGED << run, units, sess, req, cred >>

\* a second passes
DlyTick ==
    /\ dly.now < MaxTime
    /\ dly' = [dly EXCEPT !.now = @ + 1]
    /\ DlyUnchanged

\* the deadline of the run expires, or the scope is cancelled
DlyCancel ==
    /\ ~dly.ctxDone
    /\ dly' = [dly EXCEPT !.ctxDone = TRUE]
    /\ DlyUnchanged

\* Worker.Run's loop: return on a cancelled scope, else executeScript
DlyLoop ==
    /\ dly.pc = "loop"
    /\ dly' = IF dly.ctxDone
              THEN [dly EXCEPT !.pc = "returned"]
              ELSE [dly EXCEPT !.pc = "script", !.i = 1]
    /\ DlyUnchanged

\* executeScript's range loop and its first select
DlyScript ==
    /\ dly.pc = "script"
    /\ dly' = IF dly.i > Len(dly.script) \/ dly.ctxDone
              THEN [dly EXCEPT !.pc = "loop"]
              ELSE [dly EXCEPT !.pc = "wait"]
    /\ DlyUnchanged

\* rateLimiter.Wait: one Allow call; without a token the worker sleeps
\* 10 ms and calls again
DlyAllow ==
    /\ dly.pc = "wait"
    /\ LET elapsed == dly.now - dly.lastTime
           tok     == Refill(dly.tokens, dly.rate, elapsed)
           last    == IF TokensToAdd(dly.rate, elapsed) > 0
                      THEN dly.now ELSE dly.lastTime
       IN  dly' = IF tok > 0
                  THEN [dly EXCEPT !.tokens = tok - 1, !.lastTime = last,
                                   !.pc = "exec"]
                  ELSE [dly EXCEPT !.tokens = tok, !.lastTime = last]
    /\ DlyUnchanged

\* executeAction hands the request to client.Do
DlyDispatch ==
    /\ dly.pc = "exec"
    /\ dly' = [dly EXCEPT !.pc = "inflight"]
    /\ DlyUnchanged

\* a delay select whose timer fires at once when a token is available
DlyReturnNoTimer ==
    /\ dly.pc = "inflight"
    /\ \E d \in GetDelay(dly.script[dly.i]) :
          dly' = IF d > 0 /\ dly.tokens = 0
                 THEN [dly EXCEPT !.pc = "delay", !.ended = dly.now, !.d = d,
                                  !.timer = dly.now + d]
                 ELSE [dly EXCEPT !.pc = "script", !.i = @ + 1,
                                  !.ended = dly.now, !.d = d]
    /\ DlyUnchanged

\* executeAction returns; delay := action.GetDelay(); a positive delay
\* starts the time.After timer of the select
DlyReturn ==
    /\ dly.pc = "inflight"
    /\ \E d \in GetDelay(dly.script[dly.i]) :
          dly' = IF d > 0
                 THEN [dly EXCEPT !.pc = "delay", !.ended = dly.now, !.d = d,
                                  !.timer = dly.now + d]
                 ELSE [dly EXCEPT !.pc = "script", !.i = @ + 1,
                                  !.ended = dly.now, !.d = d]
    /\ DlyUnchanged

\* the select takes <-time.After(delay): on to the next action
DlyElapsed ==
    /\ dly.pc = "delay" /\ dly.now >= dly.timer
    /\ dly' = [dly EXCEPT !.pc = "script", !.i = @ + 1]
    /\ DlyUnchanged

\* the select takes <-ctx.Done(): executeScript returns nil
DlyCancelled ==
    /\ dly.pc = "delay" /\ dly.ctxDone
    /\ dly' = [dly EXCEPT !.pc = "loop",
                          !.cut = @ \/ dly.now < dly.timer]
    /\ DlyUnchanged

DlyNext ==
    \/ DlyTick
    \/ DlyCancel
    \/ DlyLoop
    \/ DlyScript
    \/ DlyAllow
    \/ DlyDispatch
    \/ DlyReturn
    \/ DlyElapsed
    \/ DlyCancelled

DlySpec == DlyInit /\ [][DlyNext]_vars

\* the worker hands a request to client.Do in this step
Dispatches == dly.pc = "exec" /\ dly'.pc = "inflight"

TicksPerSecond == 2
MaxTicks == 6
LimiterRates == {1, 2, 3}

\* int(elapsed.Seconds() * float64(rl.rate)): the fraction is cut off,
\* towards zero
TokensToAddTicks(rate, ticks) ==
    IF ticks * rate >= 0
    THEN (ticks * rate) \div TicksPerSecond
    ELSE 0 - ((0 - ticks * rate) \div TicksPerSecond)

\* NewRateLimiter: a full bucket, lastTime the time of construction
NewRateLimiter(rps) ==
    [rate |-> rps, capacity |-> rps, tokens |-> rps, lastTime |-> 0]

RateInit ==
    /\ RunFixed([Users |-> 1, RPS |-> 1, LoginURL |-> FALSE,
                 OutputFile |-> FALSE, LoginHeader |-> Empty])
    /\ sess = SessIdle
    /\ req = ReqIdle
    /\ cred = CredIdle
    /\ dly = DlyIdle
    /\ xch = << >> /\ boot = << >> /\ tmpl = << >> /\ lock = << >> /\ redir = << >> /\ subst = << >> /\ mu = << >>
    /\ \E r \in LimiterRates :
          rl = [lim |-> NewRateLimiter(r), now |-> 0,
                granted |-> [t \in 0..MaxTicks |-> 0], last |-> "none"]

RateUnchanged == UNCHANGED << run, sess, req, cred, dly, xch, boot, tmpl, lock, redir, subst, mu >>

\* time passes (between two calls, or during the 10 ms sleep of Wait)
RateTick ==
    /\ rl.now < MaxTicks
    /\ rl' = [rl EXCEPT !.now = @ + 1]
    /\ RateUnchanged

\* the refill of Allow: tokens for the time since lastTime, at most up to
\* the capacity; lastTime moves only when a token was added
RateRefill(lim, now) ==
    LET add == TokensToAddTicks(lim.rate, now - lim.lastTime) IN
    IF add > 0
    THEN [lim EXCEPT !.tokens = IF @ + add > lim.capacity
                                 THEN lim.capacity ELSE @ + add,
                     !.lastTime = now]
    ELSE lim

\* one call of Allow, by Wait or by anyone
RateAllow ==
    LET filled == RateRefill(rl.lim, rl.now) IN
    /\ rl' = IF filled.tokens > 0
             THEN [rl EXCEPT !.lim = [filled EXCEPT !.tokens = @ - 1],
                             !.granted[rl.now] = @ + 1,
                             !.last = "granted"]
             ELSE [rl EXCEPT !.lim = filled, !.last = "refused"]
    /\ RateUnchanged

RateNext == RateTick \/ RateAllow

RateSpec == RateInit /\ [][RateNext]_vars

\* the tokens granted in the ticks from..to
RECURSIVE GrantedIn(_, _)
GrantedIn(from, to) ==
    IF from > to THEN 0 ELSE rl.granted[from] + GrantedIn(from + 1, to)

\* the windows [from, from + len] of at least one second
Windows ==
    { w \in (0..MaxTicks) \X (TicksPerSecond..MaxTicks) : w[1] + w[2] <= MaxTicks }

\* C21: in every window of T >= 1 s the limiter of rate R grants at most
\* R*T + R tokens, whatever the calls of Allow (both sides in ticks)
C21_WindowBound ==
    \A w \in Windows :
        GrantedIn(w[1], w[1] + w[2]) * TicksPerSecond
            <= rl.lim.rate * w[2] + rl.lim.rate * TicksPerSecond

\* ======================= one executeAction call against the clock =========
\* The clock counts ticks of 10 s. The client of worker.New has
\* Timeout: 30 * time.Second; net/http starts that timer in client.Do and
\* lets it run on while the caller reads resp.Body.
ClientTimeout == 3
MaxClock == 4

\* script.Action as far as a deadline and the status check go: Timeout is
\* the yaml field `timeout` (Unset: not given), held as a duration in ticks;
\* ValidURL tells whether http.NewRequestWithContext accepts the method and
\* the expanded URL
XchActions ==
    { [Name |-> "Submit", Timeout |-> t, ExpectStatus |-> e, ValidURL |-> v] :
        t \in {Unset, 1}, e \in {0, 200}, v \in BOOLEAN }

XchInit ==
    /\ RunFixed([Users |-> 1, RPS |-> 1, LoginURL |-> FALSE,
                 OutputFile |-> FALSE, LoginHeader |-> Empty])
    /\ sess = SessIdle
    /\ req = ReqIdle
    /\ cred = CredIdle
    /\ dly = DlyIdle
    /\ rl = << >> /\ boot = << >> /\ tmpl = << >> /\ lock = << >> /\ redir = << >> /\ subst = << >> /\ mu = << >>
    /\ \E a \in XchActions :
          xch = [a |-> a, pc |-> "start", now |-> 0, startTime |-> 0,
                 StatusCode |-> 0, readErr |-> FALSE, pend |-> NoMetric,
                 recorded |-> 0]

XchUnchanged == UNCHANGED << run, sess, req, cred, dly, rl, boot, tmpl, lock, redir, subst, mu >>

\* the request is on its way or its body is being read
XchInFlight == xch.pc \in {"do", "body"}

\* the client's timer has run out for the request in flight
XchTimedOut == xch.now - xch.startTime >= ClientTimeout

\* 10 s pass; the timer of a request in flight fires when it runs out
XchTick ==
    /\ xch.now < MaxClock
    /\ ~(XchInFlight /\ XchTimedOut)
    /\ xch' = [xch EXCEPT !.now = @ + 1]
    /\ XchUnchanged

\* a failed request construction that returns without an event
XchNewRequestErrorSilent ==
    /\ xch.pc = "start" /\ ~xch.a.ValidURL
    /\ xch' = [xch EXCEPT !.pc = "done"]
    /\ XchUnchanged

\* lines 186-190: http.NewRequestWithContext returns an error;
\* recordMetric(..., 0, 0, err.Error()) and return
XchNewRequestError ==
    /\ xch.pc = "start" /\ ~xch.a.ValidURL
    /\ xch' = [xch EXCEPT !.pc = "done",
                          !.pend = RequestMetric(xch.a.Name, 0, 0, "request error"),
                          !.recorded = @ + 1]
    /\ XchUnchanged

\* executeAction up to client.Do: the request is built with the context of
\* the run and sent with the worker's client; action.Timeout is not read
XchDo ==
    /\ xch.pc = "start" /\ xch.a.ValidURL
    /\ xch' = [xch EXCEPT !.pc = "do", !.startTime = xch.now]
    /\ XchUnchanged

\* client.Do returns an error: the timer ran out before the response
\* headers came, or the transport failed; recordMetric(..., 0, 0, err)
XchDoError ==
    /\ xch.pc = "do"
    /\ xch' = [xch EXCEPT !.pc = "done",
                          !.pend = RequestMetric(xch.a.Name, 0, 0, "client error"),
                          !.recorded = @ + 1]
    /\ XchUnchanged

\* client.Do returns a response: the status line and headers have come
XchDoResponse ==
    /\ xch.pc = "do" /\ ~XchTimedOut
    /\ \E status \in ServerStatus :
          xch' = [xch EXCEPT !.pc = "body", !.StatusCode = status]
    /\ XchUnchanged

\* io.ReadAll returns (bodyBytes, err); the whole body with a nil error, or
\* the bytes read so far with the error of the read that failed (the
\* connection broke, or the client's timer ran out); err is dropped by
\* `bodyBytes, _ :=`, the status check follows, then recordMetric
XchReadBody ==
    /\ xch.pc = "body"
    /\ \E failed \in BOOLEAN, n \in 0..BodyBytes :
          /\ failed => n < BodyBytes
          /\ ~failed => (n = BodyBytes /\ ~XchTimedOut)
          /\ xch' = [xch EXCEPT
                        !.pc = "done",
                        !.readErr = failed,
                        !.pend = RequestMetric(xch.a.Name, xch.StatusCode, n,
                                     StatusError(xch.a, xch.StatusCode)),
                        !.recorded = @ + 1]
    /\ XchUnchanged

XchNext ==
    \/ XchTick
    \/ XchNewRequestError
    \/ XchDo
    \/ XchDoError
    \/ XchDoResponse
    \/ XchReadBody

XchSpec == XchInit /\ [][XchNext]_vars

\* the deadline the request should have: the action's own, else 30 s
DeadlineOf(a) == IF a.Timeout # Unset THEN a.Timeout ELSE ClientTimeout

\* C22: a request is in flight for at most its deadline (the action's
\* timeout if set, 30 s otherwise), and a request that used up its deadline
\* ends with an error event
C22_DeadlinePerAction ==
    /\ XchInFlight => xch.now - xch.startTime <= DeadlineOf(xch.a)
    /\ (xch.pc = "done" /\ xch.now - xch.startTime >= DeadlineOf(xch.a))
          => xch.pend.Error # ""

\* C30: a request whose body could not be read to the end carries an error
\* on its event, so that collect counts it as ERR and not as OK
C30_ReadFailureIsError ==
    (xch.pc = "done" /\ xch.readErr)
        => (xch.pend.Error # "" /\ ~IsSuccess(xch.pend))

\* ======================= the start of the program =========================
\* main: config.Parse, orchestrator.New (LoadScript, LoadCredentials), then
\* either log.Fatalf or Orchestrator.Run, which creates the workers.
MaxLines == 2
MaxSent == 2

\* ---- strings, as LoadCredentials uses them ---------------------------------
\* strings.TrimSpace
RECURSIVE TrimSpace(_)
TrimSpace(s) ==
    IF s = << >> THEN s
    ELSE IF Head(s) = " " THEN TrimSpace(Tail(s))
    ELSE IF s[Len(s)] = " " THEN TrimSpace(SubSeq(s, 1, Len(s) - 1))
    ELSE s

\* strings.Split(s, sep) for a separator of one symbol: every part between
\* two separators, the empty ones included
RECURSIVE Split(_, _)
Split(s, sep) ==
    IF \A i \in 1..Len(s) : s[i] # sep
    THEN << s >>
    ELSE LET i == CHOOSE k \in 1..Len(s) :
                     s[k] = sep /\ \A j \in 1..(k - 1) : s[j] # sep
         IN  << SubSeq(s, 1, i - 1) >> \o Split(SubSeq(s, i + 1, Len(s)), sep)

\* strings.HasPrefix(s, "#")
IsComment(s) == s # << >> /\ Head(s) = "#"

\* a line that is accepted whenever it has a username and a password, with
\* whatever follows the second comma ignored
LineErrorAtLeastTwo(line) ==
    LET parts == Split(line, ",") IN
    IF Len(parts) < 2 THEN "invalid credentials format"
    ELSE IF TrimSpace(parts[1]) = << >> \/ TrimSpace(parts[2]) = << >>
         THEN "empty username or password"
         ELSE ""

\* the checks LoadCredentials makes on a trimmed line that is neither empty
\* nor a comment: "" when the line is accepted
LineError(line) ==
    LET parts == Split(line, ",") IN
    IF Len(parts) # 2 THEN "invalid credentials format"
    ELSE IF TrimSpace(parts[1]) = << >> \/ TrimSpace(parts[2]) = << >>
         THEN "empty username or password"
         ELSE ""

\* the loop of LoadCredentials over the lines that are left: it returns at
\* the first line it rejects; got holds the credentials appended so far
RECURSIVE ScanLines(_, _)
ScanLines(lines, got) ==
    IF lines = << >>
    THEN [err |-> IF got = << >> THEN "no valid credentials found in file"
                  ELSE "",
          credentials |-> got]
    ELSE LET line == TrimSpace(Head(lines)) IN
         IF line = << >> \/ IsComment(line)
         THEN ScanLines(Tail(lines), got)
         ELSE IF LineError(line) # ""
              THEN [err |-> LineError(line), credentials |-> << >>]
              ELSE ScanLines(Tail(lines),
                       Append(got,
                           [Username |-> TrimSpace(Split(line, ",")[1]),
                            Password |-> TrimSpace(Split(line, ",")[2])]))

\* util.LoadCredentials on a file: (manager, error)
LoadCredentialsFile(file) ==
    IF file.kind = "unreadable"
    THEN [err |-> "failed to open credentials file", pool |-> NoPool]
    ELSE LET r == ScanLines(file.lines, << >>) IN
         [err |-> r.err,
          pool |-> IF r.err = "" THEN [credentials |-> r.credentials, current |-> 0]
                   ELSE NoPool]

\* script.LoadScript: ioutil.ReadFile fails, yaml.Unmarshal fails, or the
\* script is returned
LoadScriptError(kind) ==
    IF kind = "unreadable" THEN "failed to read script file"
    ELSE IF kind = "unparsable" THEN "failed to parse YAML"
    ELSE ""

\* orchestrator.New: the script first, then the credentials if
\* --credentials was given; the first error is returned
OrchestratorNew(script, file) ==
    IF LoadScriptError(script) # ""
    THEN [err |-> "failed to load script", pool |-> NoPool]
    ELSE IF file.kind = "none"
         THEN [err |-> "", pool |-> NoPool]
         ELSE IF LoadCredentialsFile(file).err # ""
              THEN [err |-> "failed to load credentials", pool |-> NoPool]
              ELSE [err |-> "", pool |-> LoadCredentialsFile(file).pool]

\* ---- the inputs ------------------------------------------------------------
ScriptFiles == {"unreadable", "unparsable", "ok"}

\* lines of a credentials file: accepted ones (plain, with blanks around the
\* fields), lines with no or two commas, with an empty or blank field, an
\* empty line, a blank line and a comment
LineShapes ==
    { << "u", ",", "p" >>,
      << " ", "u", " ", ",", " ", "p", " " >>,
      << "u" >>,
      << "u", ",", "p", ",", "p" >>,
      << ",", "p" >>,
      << "u", "," >>,
      << "u", ",", " " >>,
      << >>,
      << " " >>,
      << "#", "u", ",", "p", "," >> }

CredentialFiles ==
    { [kind |-> "none", lines |-> << >>], [kind |-> "unreadable", lines |-> << >>] }
    \cup { [kind |-> "file", lines |-> ls] :
             ls \in UNION { [1..n -> LineShapes] : n \in 0..MaxLines } }

BootInit ==
    /\ RunFixed([Users |-> 1, RPS |-> 1, LoginURL |-> FALSE,
                 OutputFile |-> FALSE, LoginHeader |-> Empty])
    /\ sess = SessIdle
    /\ req = ReqIdle
    /\ cred = CredIdle
    /\ dly = DlyIdle
    /\ rl = << >> /\ xch = << >> /\ tmpl = << >> /\ lock = << >> /\ redir = << >> /\ subst = << >> /\ mu = << >>
    /\ \E s \in ScriptFiles, f \in CredentialFiles, u \in UserCounts :
          boot = [script |-> s, file |-> f, users |-> u, pc |-> "main",
                  err |-> "", pool |-> NoPool, exit |-> Unset,
                  started |-> 0, sent |-> 0]

BootUnchanged == UNCHANGED << run, sess, req, cred, dly, rl, xch, tmpl, lock, redir, subst, mu >>

\* main line 20: orchestrator.New returns the orchestrator or an error
BootNew ==
    /\ boot.pc = "main"
    /\ LET r == OrchestratorNew(boot.script, boot.file) IN
       boot' = [boot EXCEPT !.pc = IF r.err # "" THEN "failed" ELSE "created",
                            !.err = r.err, !.pool = r.pool]
    /\ BootUnchanged

\* main lines 21-23: log.Fatalf prints the error and exits with status 1
BootFatal ==
    /\ boot.pc = "failed"
    /\ boot' = [boot EXCEPT !.pc = "exited", !.exit = 1]
    /\ BootUnchanged

\* Orchestrator.Run lines 89-102: one more worker goroutine is started
BootStartWorker ==
    /\ boot.pc \in {"created", "running"}
    /\ boot.started < boot.users
    /\ boot' = [boot EXCEPT !.pc = "running", !.started = @ + 1]
    /\ BootUnchanged

\* a started worker sends a request
BootRequest ==
    /\ boot.pc = "running" /\ boot.started > 0 /\ boot.sent < MaxSent
    /\ boot' = [boot EXCEPT !.sent = @ + 1]
    /\ BootUnchanged

BootNext == BootNew \/ BootFatal \/ BootStartWorker \/ BootRequest

BootSpec == BootInit /\ [][BootNext]_vars

\* ---- what the claim calls malformed, said without the parser's operators ----
Commas(l) == Cardinality({ i \in 1..Len(l) : l[i] = "," })
FirstMark(l) == CHOOSE i \in 1..Len(l) : l[i] # " " /\ \A j \in 1..(i - 1) : l[j] = " "
IsBlank(l) == \A i \in 1..Len(l) : l[i] = " "
IsSkipped(l) == IsBlank(l) \/ l[FirstMark(l)] = "#"
CommaAt(l) == CHOOSE i \in 1..Len(l) : l[i] = ","
IsEntry(l) ==
    /\ Commas(l) = 1
    /\ \E i \in 1..(CommaAt(l) - 1) : l[i] # " "
    /\ \E i \in (CommaAt(l) + 1)..Len(l) : l[i] # " "
Malformed(lines) ==
    \/ \E i \in 1..Len(lines) : ~IsSkipped(lines[i]) /\ ~IsEntry(lines[i])
    \/ \A i \in 1..Len(lines) : IsSkipped(lines[i])

BadStartupInput ==
    \/ boot.script # "ok"
    \/ boot.file.kind = "file" /\ Malformed(boot.file.lines)

IntBits == 4
MinInt == -(2 ^ (IntBits - 1))
MaxInt == (2 ^ (IntBits - 1)) - 1

\* the value an int holds after an addition or subtraction that overflowed
WrapInt(x) == ((x - MinInt) % (2 ^ IntBits)) + MinInt

\* strconv.Itoa for any int
FormatInt(n) == IF n < 0 THEN << "-" >> \o Itoa(-n) ELSE Itoa(n)

IsDigit(c) == \E d \in 1..10 : DecimalDigits[d] = c
DigitValue(c) == (CHOOSE d \in 1..10 : DecimalDigits[d] = c) - 1

RECURSIVE DigitsValue(_)
DigitsValue(ds) ==
    IF ds = << >> THEN 0
    ELSE DigitsValue(SubSeq(ds, 1, Len(ds) - 1)) * 10 + DigitValue(ds[Len(ds)])

\* strconv.Atoi: an optional sign, then digits only, at least one; a value
\* outside the range of int is an error too
Atoi(tok) ==
    LET signed == tok # << >> /\ Head(tok) \in {"-", "+"}
        ds     == IF signed THEN Tail(tok) ELSE tok
        shaped == ds # << >> /\ \A i \in 1..Len(ds) : IsDigit(ds[i])
        v      == IF ~shaped THEN 0
                  ELSE IF signed /\ Head(tok) = "-" THEN -DigitsValue(ds)
                  ELSE DigitsValue(ds)
    IN  [ok |-> shaped /\ v >= MinInt /\ v <= MaxInt, val |-> v]

\* strings.Fields: the parts between runs of blanks
RECURSIVE Fields(_)
Fields(s) ==
    IF s = << >> THEN << >>
    ELSE IF Head(s) = " " THEN Fields(Tail(s))
    ELSE LET n == IF \E i \in 1..Len(s) : s[i] = " "
                  THEN CHOOSE i \in 1..Len(s) :
                          s[i] = " " /\ \A j \in 1..(i - 1) : s[j] # " "
                  ELSE Len(s) + 1
         IN  << SubSeq(s, 1, n - 1) >> \o Fields(SubSeq(s, n, Len(s)))

\* strings.Index for a word, from position from on: 0 when it is absent
IndexFrom(s, from, word) ==
    IF \E i \in from..Len(s) : s[i] = word
    THEN CHOOSE i \in from..Len(s) :
            s[i] = word /\ \A j \in from..(i - 1) : s[j] # word
    ELSE 0

\* one test of the loop condition and, if it holds, one pass of the loop
\* body (lines 82-113 for "{{randInt" with fallback "1", lines 123-154 for
\* "{{randDelay" with fallback "1000"): the outcomes it can have.
\*   left "loop": the first marker was replaced, the loop goes on;
\*   left "out":  no marker, or the break for a marker without "}}";
\*   left "panic": rand.Intn was called with n <= 0.
RandStep(result, marker, fallback) ==
    LET start == IndexFrom(result, 1, marker)
        end   == IF start = 0 THEN 0 ELSE IndexFrom(result, start, "}}")
        parts == Fields(SubSeq(result, start + 1, end - 1))
        min   == Atoi(parts[1])
        max   == Atoi(parts[2])
        n     == WrapInt(max.val - min.val + 1)
        put(t) == SubSeq(result, 1, start - 1) \o t
                     \o SubSeq(result, end + 1, Len(result))
    IN  IF start = 0 \/ end = 0
        THEN { [left |-> "out", result |-> result] }
        ELSE IF Len(parts) = 2
             THEN IF min.ok /\ max.ok /\ max.val > min.val
                  THEN IF n <= 0
                       THEN { [left |-> "panic", result |-> result] }
                       ELSE { [left |-> "loop",
                               result |-> put(FormatInt(r + min.val))] :
                                 r \in 0..(n - 1) }
                  ELSE { [left |-> "loop", result |-> put(fallback)] }
             ELSE { [left |-> "loop", result |-> put(fallback)] }

\* lines 116-120
MovieList == { << "m", "1" >>, << "m", "2" >> }

\* ---- the inputs ------------------------------------------------------------
\* what stands where an argument of a template is expected
ArgTokens ==
    { FormatInt(v) : v \in {MinInt, -1, 0, 2, MaxInt} }
    \cup { << "x" >>, FormatInt(MaxInt + 1) }

ArgLists == UNION { [1..n -> ArgTokens] : n \in 0..3 }

\* a few argument lists for texts with more than one template
FewArgLists ==
    { << FormatInt(0), FormatInt(2) >>, << FormatInt(2), FormatInt(0) >>,
      << << "x" >> >> }

\* the arguments, each with a blank before it
RECURSIVE Spaced(_)
Spaced(args) ==
    IF args = << >> THEN << >> ELSE << " " >> \o Head(args) \o Spaced(Tail(args))

\* the text of a template: marker, arguments, and "}}" unless left open
TemplateText(t) ==
    << t.marker >> \o Spaced(t.args) \o (IF t.closed THEN << "}}" >> ELSE << >>)

Templates(lists) ==
    [marker : {"{{randInt", "{{randDelay"}, args : lists, closed : BOOLEAN]

\* texts: "{{userId}}", a template, a letter; or two templates and, between
\* them, "{{pick movies}}"
TemplateInputs ==
    { << t >> : t \in Templates(ArgLists) }
    \cup { << t1, t2 >> : t1 \in Templates(FewArgLists), t2 \in Templates(FewArgLists) }

RECURSIVE InputText(_)
InputText(ts) ==
    IF Len(ts) = 1
    THEN << "{{userId}}" >> \o TemplateText(ts[1]) \o << "a" >>
    ELSE TemplateText(Head(ts)) \o << "{{pick movies}}" >> \o InputText(Tail(ts))

TmplInit ==
    /\ RunFixed([Users |-> 1, RPS |-> 1, LoginURL |-> FALSE,
                 OutputFile |-> FALSE, LoginHeader |-> Empty])
    /\ sess = SessIdle
    /\ req = ReqIdle
    /\ cred = CredIdle
    /\ dly = DlyIdle
    /\ rl = << >> /\ xch = << >> /\ boot = << >> /\ lock = << >> /\ redir = << >> /\ subst = << >> /\ mu = << >>
    /\ \E ts \in TemplateInputs, u \in Workers :
          tmpl = [in |-> ts, userID |-> u, pc |-> "start",
                  result |-> InputText(ts), passes |-> 0]

TmplUnchanged == UNCHANGED << run, sess, req, cred, dly, rl, xch, boot, lock, redir, subst, mu >>

\* lines 73-79: {{userId}} and {{epochms}} (the time is a number; the texts
\* here hold no {{epochms}})
TmplBegin ==
    /\ tmpl.pc = "start"
    /\ \E ms \in {0, 1} :
          tmpl' = [tmpl EXCEPT
                     !.pc = "randInt",
                     !.result = ReplaceAll(ExpandString(tmpl.result, tmpl.userID),
                                           "{{epochms}}", Itoa(ms))]
    /\ TmplUnchanged

\* lines 82-113: the {{randInt loop
TmplRandInt ==
    /\ tmpl.pc = "randInt"
    /\ \E o \in RandStep(tmpl.result, "{{randInt", << "1" >>) :
          tmpl' = [tmpl EXCEPT
                     !.pc = CASE o.left = "loop" -> "randInt"
                              [] o.left = "out" -> "pick"
                              [] o.left = "panic" -> "panic",
                     !.result = o.result,
                     !.passes = IF o.left = "loop" THEN @ + 1 ELSE @]
    /\ TmplUnchanged

\* lines 116-120: one movie for every {{pick movies}} of the text
TmplPick ==
    /\ tmpl.pc = "pick"
    /\ \E m \in MovieList :
          tmpl' = [tmpl EXCEPT
                     !.pc = "randDelay",
                     !.result = ReplaceAll(tmpl.result, "{{pick movies}}", m),
                     !.passes = 0]
    /\ TmplUnchanged

\* lines 123-154: the {{randDelay loop; line 156: return
TmplRandDelay ==
    /\ tmpl.pc = "randDelay"
    /\ \E o \in RandStep(tmpl.result, "{{randDelay", << "1", "0", "0", "0" >>) :
          tmpl' = [tmpl EXCEPT
                     !.pc = CASE o.left = "loop" -> "randDelay"
                              [] o.left = "out" -> "done"
                              [] o.left = "panic" -> "panic",
                     !.result = o.result,
                     !.passes = IF o.left = "loop" THEN @ + 1 ELSE @]
    /\ TmplUnchanged

TmplNext == TmplBegin \/ TmplRandInt \/ TmplPick \/ TmplRandDelay

TmplSpec == TmplInit /\ [][TmplNext]_vars

\* ---- the claim's reading of a template -------------------------------------
\* an argument that is an integer (of the int type), and its value
IntegerValues == MinInt..MaxInt
IsInteger(tok) == \E v \in IntegerValues : FormatInt(v) = tok
ValueOf(tok) == CHOOSE v \in IntegerValues : FormatInt(v) = tok
\* the single closed {{randInt ...}} of the input, if the input is one
OneRandInt ==
    Len(tmpl.in) = 1 /\ tmpl.in[1].marker = "{{randInt" /\ tmpl.in[1].closed
ProperArgs(args) ==
    Len(args) = 2 /\ IsInteger(args[1]) /\ IsInteger(args[2])
       /\ ValueOf(args[1]) < ValueOf(args[2])
\* what the text around the template has become
Around(t) == Itoa(tmpl.userID) \o t \o << "a" >>
\* the {{randInt markers of the input
Markers(marker) == Cardinality({ i \in 1..Len(tmpl.in) : tmpl.in[i].marker = marker })

\* C24: {{randInt A B}} with integers A < B becomes an integer between A
\* and B; with a wrong number of arguments, a non-integer or A >= B it
\* becomes 1; and the expansion ends (it does not fail, and the loop makes
\* at most one pass per marker of the text)
C24_RandIntExpansion ==
    /\ tmpl.pc # "panic"
    /\ tmpl.pc = "randInt" => tmpl.passes <= Markers("{{randInt")
    /\ (OneRandInt /\ tmpl.pc \in {"pick", "randDelay", "done"}) =>
          IF ProperArgs(tmpl.in[1].args)
          THEN \E v \in ValueOf(tmpl.in[1].args[1])..ValueOf(tmpl.in[1].args[2]) :
                  tmpl.result = Around(FormatInt(v))
          ELSE tmpl.result = Around(<< "1" >>)

\* ---- a delay written as a template ------------------------------------------
\* the action's delay field is `{{randDelay A B}}ms`
IsTemplateDelay(a) == a.Delay # Empty /\ Head(a.Delay) = "{{randDelay"
\* A and B, in the seconds of the delay study's clock
TemplateRange(a) ==
    LET parts == Fields(SubSeq(a.Delay, 2, IndexFrom(a.Delay, 1, "}}") - 1))
    IN  [lo |-> DigitsValue(parts[1]) \div 1000,
         hi |-> DigitsValue(parts[2]) \div 1000]

\* C25: after the request of an action whose delay field is
\* `{{randDelay A B}}ms` the worker waits a duration between A and B
\* milliseconds, and dispatches its next request no sooner
C25_TemplateDelayWaits ==
    [][ /\ (dly.pc = "inflight" /\ dly'.pc # "inflight"
              /\ IsTemplateDelay(dly.script[dly.i])) =>
              /\ dly'.d >= TemplateRange(dly.script[dly.i]).lo
              /\ dly'.d <= TemplateRange(dly.script[dly.i]).hi
              /\ dly'.pc = "delay"
        /\ Dispatches => dly.now >= dly.ended + dly.d
      ]_vars

\* ======================= the locks of the statistics ======================
\* One ActionStats record, the collect goroutine that updates it, and one
\* reporter call at a time (showProgress from the ticker goroutine,
\* PrintFinalReport and SaveReport from Orchestrator.Run, which calls them
\* before the deferred collector.Stop). A sync.RWMutex is its writer flag
\* and its count of readers.
MaxPending == 2

NewRWMutex == [writer |-> FALSE, readers |-> 0]

\* what a reporter call does with a record GetStats handed to it, in order:
\* "counters": it reads TotalOK, TotalErrors, BytesTotal from the record;
\* "percentile": it calls GetLatencyPercentile;
\* "histogram": it calls stat.Histogram.ValueAtQuantile itself
ReporterCalls ==
    [ showProgress     |-> << "counters" >>,
      PrintFinalReport |-> << "percentile", "counters", "histogram" >>,
      SaveReport       |-> << "counters", "percentile", "counters" >> ]

LockInit ==
    /\ RunFixed([Users |-> 1, RPS |-> 1, LoginURL |-> FALSE,
                 OutputFile |-> FALSE, LoginHeader |-> Empty])
    /\ sess = SessIdle
    /\ req = ReqIdle
    /\ cred = CredIdle
    /\ dly = DlyIdle
    /\ rl = << >> /\ xch = << >> /\ boot = << >> /\ tmpl = << >> /\ redir = << >> /\ subst = << >> /\ mu = << >>
    /\ \E n \in 1..MaxPending :
          lock = [cmu |-> NewRWMutex, smu |-> NewRWMutex,
                  collect |-> "recv", pending |-> n, exists |-> FALSE,
                  TotalOK |-> 0,
                  call |-> "none", pc |-> "idle", step |-> 0, has |-> FALSE]

LockUnchanged == UNCHANGED << run, sess, req, cred, dly, rl, xch, boot, tmpl, redir, subst, mu >>

\* collect lines 87-99: a metric is received, c.mu.Lock(), the record is
\* looked up and created if absent
LockCollectReceive ==
    /\ lock.collect = "recv" /\ lock.pending > 0
    /\ ~lock.cmu.writer /\ lock.cmu.readers = 0
    /\ lock' = [lock EXCEPT !.collect = "locked", !.pending = @ - 1,
                            !.cmu.writer = TRUE, !.exists = TRUE]
    /\ LockUnchanged

\* collect line 102: stats.mu.Lock()
LockCollectStatsLock ==
    /\ lock.collect = "locked"
    /\ ~lock.smu.writer /\ lock.smu.readers = 0
    /\ lock' = [lock EXCEPT !.collect = "update", !.smu.writer = TRUE]
    /\ LockUnchanged

\* collect lines 103-115: the counters, the histogram and the byte total
\* are written, then both locks are released
LockCollectUpdate ==
    /\ lock.collect = "update"
    /\ lock' = [lock EXCEPT !.collect = "recv", !.TotalOK = @ + 1,
                            !.smu.writer = FALSE, !.cmu.writer = FALSE]
    /\ LockUnchanged

\* a reporter call begins: GetStats line 73, c.mu.RLock()
LockGetStats ==
    /\ lock.pc = "idle"
    /\ ~lock.cmu.writer
    /\ \E c \in DOMAIN ReporterCalls :
          lock' = [lock EXCEPT !.call = c, !.pc = "getStats",
                               !.cmu.readers = @ + 1]
    /\ LockUnchanged

\* GetStats lines 76-80: the pointers are copied, c.mu.RUnlock(); the
\* caller has the record if there is one
LockGetStatsReturn ==
    /\ lock.pc = "getStats"
    /\ lock' = [lock EXCEPT !.cmu.readers = @ - 1,
                            !.has = lock.exists,
                            !.step = 1,
                            !.pc = IF lock.exists THEN "next" ELSE "idle"]
    /\ LockUnchanged

\* the next access to the record begins; GetLatencyPercentile takes
\* as.mu.RLock() first, the other accesses take nothing
LockReadBegin ==
    /\ lock.pc = "next"
    /\ LET kind == ReporterCalls[lock.call][lock.step] IN
          /\ kind = "percentile" => ~lock.smu.writer
          /\ lock' = [lock EXCEPT
                        !.pc = kind,
                        !.smu.readers = IF kind = "percentile" THEN @ + 1 ELSE @]
    /\ LockUnchanged

\* the access ends (GetLatencyPercentile: as.mu.RUnlock())
LockReadEnd ==
    /\ lock.pc \in {"counters", "percentile", "histogram"}
    /\ lock' = [lock EXCEPT
                  !.smu.readers = IF lock.pc = "percentile" THEN @ - 1 ELSE @,
                  !.step = @ + 1,
                  !.pc = IF lock.step < Len(ReporterCalls[lock.call])
                         THEN "next" ELSE "idle"]
    /\ LockUnchanged

LockNext ==
    \/ LockCollectReceive
    \/ LockCollectStatsLock
    \/ LockCollectUpdate
    \/ LockGetStats
    \/ LockGetStatsReturn
    \/ LockReadBegin
    \/ LockReadEnd

LockSpec == LockInit /\ [][LockNext]_vars

\* the reporter is reading the record; collect is writing it
ReporterReads == lock.pc \in {"counters", "percentile", "histogram"}
CollectWrites == lock.collect = "update"

\* C26: whenever the reporter reads the record it holds a read lock of the
\* record, and collect is not inside its update of that record
C26_ReadsUnderLock ==
    ReporterReads => (lock.smu.readers > 0 /\ ~CollectWrites)

\* ---- closing the sink --------------------------------------------------------
\* events of action n that Record put into the channel
Accepted(n) == submitted[n] - dropped[n]
\* events of action n that collect has added to the record of n
Aggregated(n) == actions[n].TotalOK + actions[n].TotalErrors
\* events of action n on their way: in the channel, or in collect's hands
Queued(n) == Cardinality({ i \in 1..Len(metrics) : metrics[i].Name = n })
Held(n) == IF apc = "update" /\ cur.Name = n THEN 1 ELSE 0

\* C27: collect signals completion only on a closed and empty channel with
\* nothing in its hands; Stop returns only after that signal; every event
\* Record accepted is in the channel, in collect's hands or aggregated, so
\* that when Stop has returned every accepted event is aggregated
C27_StopDrains ==
    /\ apc = "done" => (closed /\ metrics = << >> /\ cur = NoMetric)
    /\ opc = "returned" => apc = "done"
    /\ \A n \in ActionNames : Accepted(n) = Aggregated(n) + Queued(n) + Held(n)
    /\ opc = "returned" => \A n \in ActionNames : Accepted(n) = Aggregated(n)

\* Stop has returned after a run in which Record accepted two events or more
C27_Witness ==
    /\ opc = "returned"
    /\ Accepted("Login") + Accepted("Submit") >= 2
    /\ Aggregated("Login") + Aggregated("Submit") >= 2

\* ---- after the cancellation --------------------------------------------------
\* C28: once the scope has fired no worker hands a request to the network,
\* and a worker that comes out of rateLimiter.Wait with the scope fired
\* returns to Run without executing the action: it prepares no event
C28_NoWorkAfterCancel ==
    [][ \A w \in Workers :
          /\ (ctxDone /\ wpc[w] # "inflight") => wpc'[w] # "inflight"
          /\ (ctxDone /\ wpc[w] = "exec" /\ wpc'[w] # "exec") =>
                /\ wpc'[w] \in {"loop", "returned", "unused"}
                /\ pend'[w] = pend[w]
                /\ lastExec'[w] = lastExec[w] \/ wpc'[w] = "unused"
      ]_vars

\* ---- session headers, stored and sent ----------------------------------------
\* worker w takes the headers of the response it holds into its session
\* (executeAction line 244, login line 125)
Stores(w) ==
    \/ sess[w].pc = "received" /\ sess'[w].pc = "idle"
    \/ sess[w].pc = "loginDone" /\ sess'[w].pc = "idle"

\* the value the worker has for a session header: for X-CSRF-Token its
\* current CSRF token (the stored header, or what a later response put in
\* its place), for Authorization the stored header
CurrentValue(w, n) ==
    IF n = "X-CSRF-Token" THEN sess[w].csrfToken ELSE sess[w].sessionHeaders[n]

\* every header a response carries is stored, the token also as the current
\* CSRF token; a header the response lacks leaves the stored one as it is
StoresLatest(w) ==
    Stores(w) =>
        /\ \A n \in SessionHeaderNames :
              sess'[w].sessionHeaders[n] =
                 IF sess[w].resp.Header[n] # Empty
                 THEN sess[w].resp.Header[n]
                 ELSE sess[w].sessionHeaders[n]
        /\ sess[w].resp.Header["X-CSRF-Token"] # Empty =>
              sess'[w].csrfToken = sess[w].resp.Header["X-CSRF-Token"]

\* --login-hdr is name:value with this name (in any spelling)
LoginHeaderNames(n) ==
    /\ cfg.LoginHeader # Empty
    /\ FirstColon(cfg.LoginHeader) = 2
    /\ CanonicalHeaderKey(cfg.LoginHeader[1]) = CanonicalHeaderKey(n)

\* C29 (as stated): a header of a response is stored (X-CSRF-Token also as
\* the current CSRF token), and every later request carries, for each of the
\* two names, the value stored last
C29_StoredHeadersSent ==
    [][ \A w \in Workers :
          /\ StoresLatest(w)
          /\ \A n \in SessionHeaderNames :
                (Sends(w) /\ sess[w].sessionHeaders[n] # Empty) =>
                    req'[w].Header[CanonicalHeaderKey(n)] = CurrentValue(w, n)
      ]_vars

\* C29 (amended): a header of a response is stored (X-CSRF-Token also as
\* the current CSRF token), and every later request carries, for each of the
\* two names, the value stored last, unless --login-hdr names that header:
\* then the request carries the value of --login-hdr
C29_StoredHeadersSentUnlessLoginHeader ==
    [][ \A w \in Workers :
          /\ StoresLatest(w)
          /\ \A n \in SessionHeaderNames :
                (Sends(w) /\ sess[w].sessionHeaders[n] # Empty) =>
                    req'[w].Header[CanonicalHeaderKey(n)] =
                       IF LoginHeaderNames(n)
                       THEN SubSeq(cfg.LoginHeader, 3, Len(cfg.LoginHeader))
                       ELSE CurrentValue(w, n)
      ]_vars

\* a request is on its way that carries the Authorization value and the
\* second of two X-CSRF-Token values that responses gave to the worker
C29_Witness ==
    /\ sess[1].pc = "inflight"
    /\ cfg.LoginHeader = Empty
    /\ sess[1].sessionHeaders["Authorization"] = << "B" >>
    /\ req[1].Header["Authorization"] = << "B" >>
    /\ sess[1].sessionHeaders["X-CSRF-Token"] = << "1", "+" >>
    /\ req[1].Header["X-Csrf-Token"] = << "1", "+" >>
    /\ req[1].Action.Headers = << << "Authorization", << "A" >> >> >>

\* ---- client.Do against a server that redirects (RedirSpec) -----------------
\* the number of earlier requests at which CheckRedirect refuses the next one
\* (worker.New line 57)
MaxRedirects == 10
\* the longest run of redirect responses a server gives
MaxChain == 12

\* a server answers the first `chain` requests of a call by a redirect and
\* the next one by a response of status `final`
RedirServers == [chain : 0..MaxChain, final : {200, 404}]

\* worker.New lines 55-60: the client's CheckRedirect, called with the
\* requests made so far (via) before the next one is made
CheckRedirect(via) ==
    IF via >= MaxRedirects THEN "stopped after 10 redirects" ELSE ""

\* before client.Do: no request made, no answer seen, no event built
RedirInit ==
    /\ RunFixed([Users |-> 1, RPS |-> 1, LoginURL |-> FALSE,
                 OutputFile |-> FALSE, LoginHeader |-> Empty])
    /\ sess = SessIdle
    /\ req = ReqIdle
    /\ cred = CredIdle
    /\ dly = DlyIdle
    /\ rl = << >> /\ xch = << >> /\ boot = << >> /\ tmpl = << >> /\ lock = << >> /\ subst = << >> /\ mu = << >>
    /\ \E s \in RedirServers :
          redir = [server |-> s, pc |-> "send", via |-> 0, redirects |-> 0,
                   jar |-> 0, StatusCode |-> 0, Error |-> ""]

RedirUnchanged == UNCHANGED << run, sess, req, cred, dly, rl, xch, boot, tmpl, lock, subst, mu >>

\* client.Do sends a request (the first one, or the one a redirect names);
\* it joins the requests made so far
RedirSend ==
    /\ redir.pc = "send"
    /\ redir' = [redir EXCEPT !.pc = "sent", !.via = @ + 1]
    /\ RedirUnchanged

\* the server answers by a redirect, whose cookie enters the jar
RedirRedirected ==
    /\ redir.pc = "sent"
    /\ redir.redirects < redir.server.chain
    /\ redir' = [redir EXCEPT !.pc = "check", !.redirects = @ + 1,
                              !.jar = @ + 1]
    /\ RedirUnchanged

\* the server answers by its final response: client.Do returns it and
\* executeAction (lines 235-252) records its status
RedirAnswered ==
    /\ redir.pc = "sent"
    /\ redir.redirects = redir.server.chain
    /\ redir' = [redir EXCEPT !.pc = "recorded",
                              !.StatusCode = redir.server.final]
    /\ RedirUnchanged

\* after a redirect response client.Do asks CheckRedirect: on an error it
\* returns the error, which executeAction records with status 0 (lines
\* 228-231); otherwise it goes on to the next request
RedirCheck ==
    /\ redir.pc = "check"
    /\ LET err == CheckRedirect(redir.via) IN
       redir' = IF err # ""
                THEN [redir EXCEPT !.pc = "recorded", !.Error = err]
                ELSE [redir EXCEPT !.pc = "send"]
    /\ RedirUnchanged

RedirNext ==
    \/ RedirSend
    \/ RedirRedirected
    \/ RedirAnswered
    \/ RedirCheck

RedirSpec == RedirInit /\ [][RedirNext]_vars

\* C31: a call answered by at most 10 redirects in a row ends with the
\* final response (its status, no error), and only a call answered by more
\* ends with the redirect error (status 0)
C31_TenRedirectsFollowed ==
    redir.pc = "recorded" =>
        IF redir.server.chain <= 10
        THEN redir.Error = "" /\ redir.StatusCode = redir.server.final
        ELSE redir.Error # "" /\ redir.StatusCode = 0

\* ---- the substitutions of executeAction on one body (SubstSpec) ------------
\* length of the bodies explored at most
MaxBody == 2

\* what a body of the study is made of: a character and the placeholders
BodySymbols == {"x", "{{userId}}", "{{username}}", "{{password}}", "{{email}}"}

\* the bodies of at most n symbols
RECURSIVE Bodies(_)
Bodies(n) ==
    IF n = 0
    THEN {Empty}
    ELSE Bodies(n - 1)
           \cup { << c >> \o b : c \in BodySymbols, b \in Bodies(n - 1) }

\* credentials of one line of the file: plain ones, and ones whose fields
\* read like a placeholder
SubstCredentials ==
    [Username : {<< "u" >>, << "{{password}}" >>, << "{{email}}" >>},
     Password : {<< "p" >>, << "{{email}}" >>, << "{{userId}}" >>}]

\* executeAction is about to work on the body of an action
SubstInit ==
    /\ RunFixed([Users |-> 1, RPS |-> 1, LoginURL |-> FALSE,
                 OutputFile |-> FALSE, LoginHeader |-> Empty])
    /\ sess = SessIdle
    /\ req = ReqIdle
    /\ cred = CredIdle
    /\ dly = DlyIdle
    /\ rl = << >> /\ xch = << >> /\ boot = << >> /\ tmpl = << >> /\ lock = << >> /\ redir = << >> /\ mu = << >>
    /\ \E b \in Bodies(MaxBody), c \in SubstCredentials, id \in Workers :
          subst = [Body |-> b, creds |-> c, id |-> id, pc |-> "start",
                   result |-> b]

SubstUnchanged == UNCHANGED << run, sess, req, cred, dly, rl, xch, boot, tmpl, lock, redir, mu >>

\* executeAction line 160: the templates of the body are expanded
SubstExpandTemplates ==
    /\ subst.pc = "start"
    /\ subst' = [subst EXCEPT !.pc = "expanded",
                              !.result = ExpandString(subst.Body, subst.id)]
    /\ SubstUnchanged

\* executeAction lines 163-166: the credential placeholders are replaced
SubstReplaceCredentials ==
    /\ subst.pc = "expanded"
    /\ subst' = [subst EXCEPT
                   !.pc = "replaced",
                   !.result = ReplaceCredentialPlaceholders(subst.result,
                                                            subst.creds)]
    /\ SubstUnchanged

SubstNext ==
    \/ SubstExpandTemplates
    \/ SubstReplaceCredentials

SubstSpec == SubstInit /\ [][SubstNext]_vars

\* what one placeholder stands for
Expansion(c, id, creds) ==
    CASE c = "{{userId}}"   -> Itoa(id)
      [] c = "{{username}}" -> creds.Username
      [] c = "{{password}}" -> creds.Password
      [] c = "{{email}}"    -> creds.Username
      [] OTHER              -> << c >>

\* every placeholder of the text replaced by what it stands for, the
\* inserted text left as it is
RECURSIVE ExpandedOnce(_, _, _)
ExpandedOnce(text, id, creds) ==
    IF text = Empty
    THEN Empty
    ELSE Expansion(Head(text), id, creds) \o ExpandedOnce(Tail(text), id, creds)

\* C32: the body after both substitutions is the body with each of its
\* placeholders replaced by what it stands for; text that a replacement
\* inserted is in it verbatim
C32_ExpansionNotRescanned ==
    subst.pc = "replaced" =>
        subst.result = ExpandedOnce(subst.Body, subst.id, subst.creds)

\* ---- the bucket of a limiter of any rate (BucketSpec) ----------------------
\* --rps is an int flag that nothing checks (config.Parse line 353), and
\* worker.New hands it to NewRateLimiter as it is
BucketRates == {-1, 0, 1, 2}

BucketInit ==
    /\ RunFixed([Users |-> 1, RPS |-> 1, LoginURL |-> FALSE,
                 OutputFile |-> FALSE, LoginHeader |-> Empty])
    /\ sess = SessIdle
    /\ req = ReqIdle
    /\ cred = CredIdle
    /\ dly = DlyIdle
    /\ xch = << >> /\ boot = << >> /\ tmpl = << >> /\ lock = << >> /\ redir = << >> /\ subst = << >> /\ mu = << >>
    /\ \E r \in BucketRates :
          rl = [lim |-> NewRateLimiter(r), now |-> 0,
                granted |-> [t \in 0..MaxTicks |-> 0], last |-> "none"]

BucketNext == RateTick \/ RateAllow

BucketSpec == BucketInit /\ [][BucketNext]_vars

\* a call of Allow returns in this step (the clock stands still meanwhile)
Allows == rl'.now = rl.now /\ rl'.last \in {"granted", "refused"}

\* C33: the tokens of a limiter are always between 0 and its capacity; a
\* call of Allow never takes a token away by its refill, adds none when no
\* time has passed since the last refill, and takes exactly one token when
\* it succeeds
C33_BucketWithinCapacity ==
    [][ /\ 0 <= rl.lim.tokens /\ rl.lim.tokens <= rl.lim.capacity
        /\ 0 <= rl'.lim.tokens /\ rl'.lim.tokens <= rl'.lim.capacity
        /\ Allows =>
             LET taken  == IF rl'.granted # rl.granted THEN 1 ELSE 0
                 filled == rl'.lim.tokens + taken
             IN  /\ filled >= rl.lim.tokens
                 /\ rl.now - rl.lim.lastTime <= 0 => filled = rl.lim.tokens
                 /\ rl'.last = "granted" <=> taken = 1
      ]_vars

\* ---- the events of a run ------------------------------------------------------
\* every event submitted is dropped, in the channel, in collect's hands or
\* counted
Balanced ==
    \A n \in ActionNames :
       submitted[n] = dropped[n] + Queued(n) + Held(n) + Aggregated(n)

\* C34: for every action name the events submitted are those dropped at
\* Record, those in the channel, the one collect holds and those counted
\* as OK or as error; no counter decreases and no record that exists goes
\* away
C34_EventConservation ==
    [][ /\ Balanced
        /\ Balanced'
        /\ \A n \in ActionNames :
              /\ submitted'[n] >= submitted[n]
              /\ dropped'[n] >= dropped[n]
              /\ actions'[n].TotalOK >= actions[n].TotalOK
              /\ actions'[n].TotalErrors >= actions[n].TotalErrors
              /\ actions'[n].BytesTotal >= actions[n].BytesTotal
              /\ actions[n].Exists => actions'[n].Exists
      ]_vars

\* of three events submitted one was counted, one is in the channel and
\* one was dropped
C34_Witness ==
    /\ TotalSubmitted = 3
    /\ \E n \in ActionNames : Aggregated(n) = 1
    /\ Len(metrics) = 1
    /\ \E n \in ActionNames : dropped[n] = 1

\* ---- the sink is closed once, after the last Record ---------------------------
\* a worker calls Record in this step
Records == \E n \in ActionNames : submitted'[n] = submitted[n] + 1

\* C35: no worker calls Record once the channel is closed, the channel is
\* never closed a second time (either would end the process by a panic),
\* and a run that returns has closed it
C35_NoRecordAfterClose ==
    [][ /\ closed => ~Records
        /\ closed => closed'
        /\ proc' # "panic"
        /\ opc' = "returned" => closed'
      ]_vars

\* a run of two workers that submitted events has returned, the channel
\* closed
C35_Witness ==
    /\ opc = "returned" /\ closed
    /\ cfg.Users = 2
    /\ TotalSubmitted >= 2

\* ---- the two locks under three goroutines (MuSpec) -------------------------
\* collect, the goroutine of StartLiveReporting (showProgress on every tick)
\* and the goroutine of Run (PrintFinalReport, then SaveReport), which all
\* run at once: collect goes on until Stop, the ticker is never stopped. A
\* sync.RWMutex holds a writer or a number of readers; a Lock call that
\* waits keeps later RLock calls waiting (waiting).
\* showProgress calls explored at most
MaxProgress == 2

Reporters == {"live", "final"}

\* the calls a reporting goroutine makes, in order
ReporterPlan(r, ticks) ==
    IF r = "live"
    THEN [k \in 1..ticks |-> "showProgress"]
    ELSE << "PrintFinalReport", "SaveReport" >>

MuInit ==
    /\ RunFixed([Users |-> 1, RPS |-> 1, LoginURL |-> FALSE,
                 OutputFile |-> FALSE, LoginHeader |-> Empty])
    /\ sess = SessIdle
    /\ req = ReqIdle
    /\ cred = CredIdle
    /\ dly = DlyIdle
    /\ rl = << >> /\ xch = << >> /\ boot = << >> /\ tmpl = << >> /\ lock = << >> /\ redir = << >> /\ subst = << >>
    /\ \E n \in 1..MaxPending, ticks \in 1..MaxProgress :
          mu = [cmu |-> [writer |-> FALSE, readers |-> 0, waiting |-> FALSE],
                smu |-> [writer |-> FALSE, readers |-> 0, waiting |-> FALSE],
                collect |-> "recv", pending |-> n, exists |-> FALSE,
                rep |-> [r \in Reporters |->
                           [plan |-> ReporterPlan(r, ticks), call |-> 0,
                            pc |-> "idle", step |-> 0]]]

MuUnchanged == UNCHANGED << run, sess, req, cred, dly, rl, xch, boot, tmpl, lock, redir, subst >>

\* collect line 87: a metric is received and c.mu.Lock() is called
MuCollectReceive ==
    /\ mu.collect = "recv" /\ mu.pending > 0
    /\ mu' = [mu EXCEPT !.collect = "wantC", !.pending = @ - 1,
                        !.cmu.waiting = TRUE]
    /\ MuUnchanged

\* collect lines 88-102: c.mu.Lock() returns when no reader is left; the
\* record is looked up, created if absent, and stats.mu.Lock() is called
MuCollectLock ==
    /\ mu.collect = "wantC"
    /\ mu.cmu.readers = 0
    /\ mu' = [mu EXCEPT !.collect = "wantS", !.exists = TRUE,
                        !.cmu.writer = TRUE, !.cmu.waiting = FALSE,
                        !.smu.waiting = TRUE]
    /\ MuUnchanged

\* collect line 102: stats.mu.Lock() returns when no reader is left
MuCollectStatsLock ==
    /\ mu.collect = "wantS"
    /\ mu.smu.readers = 0
    /\ mu' = [mu EXCEPT !.collect = "update",
                        !.smu.writer = TRUE, !.smu.waiting = FALSE]
    /\ MuUnchanged

\* collect lines 103-115: the record is updated and both locks released
MuCollectUpdate ==
    /\ mu.collect = "update"
    /\ mu' = [mu EXCEPT !.collect = "recv",
                        !.smu.writer = FALSE, !.cmu.writer = FALSE]
    /\ MuUnchanged

\* the goroutine makes its next call, which begins with GetStats and its
\* c.mu.RLock() (line 73)
MuCall(r) ==
    /\ mu.rep[r].pc = "idle"
    /\ mu.rep[r].call < Len(mu.rep[r].plan)
    /\ mu' = [mu EXCEPT !.rep[r].call = @ + 1, !.rep[r].pc = "wantC"]
    /\ MuUnchanged

\* c.mu.RLock() returns: no writer holds the lock and none waits for it
MuGetStats(r) ==
    /\ mu.rep[r].pc = "wantC"
    /\ ~mu.cmu.writer /\ ~mu.cmu.waiting
    /\ mu' = [mu EXCEPT !.rep[r].pc = "getStats", !.cmu.readers = @ + 1]
    /\ MuUnchanged

\* a GetStats that returns without c.mu.RUnlock()
MuGetStatsReturnLocked(r) ==
    /\ mu.rep[r].pc = "getStats"
    /\ mu' = [mu EXCEPT !.rep[r].step = 1,
                        !.rep[r].pc = IF mu.exists THEN "next" ELSE "idle"]
    /\ MuUnchanged

\* GetStats lines 76-80: the pointers are copied, c.mu.RUnlock(); without a
\* record the caller has nothing more to read
MuGetStatsReturn(r) ==
    /\ mu.rep[r].pc = "getStats"
    /\ mu' = [mu EXCEPT !.cmu.readers = @ - 1,
                        !.rep[r].step = 1,
                        !.rep[r].pc = IF mu.exists THEN "next" ELSE "idle"]
    /\ MuUnchanged

\* the accesses to the record the current call of r makes
MuAccesses(r) == ReporterCalls[mu.rep[r].plan[mu.rep[r].call]]

\* the next access to the record: GetLatencyPercentile calls as.mu.RLock()
\* (line 121), the other accesses read without a lock
MuReadBegin(r) ==
    /\ mu.rep[r].pc = "next"
    /\ LET kind == MuAccesses(r)[mu.rep[r].step] IN
       mu' = [mu EXCEPT !.rep[r].pc = IF kind = "percentile" THEN "wantS"
                                                              ELSE kind]
    /\ MuUnchanged

\* as.mu.RLock() returns: no writer holds the lock and none waits for it
MuStatsRLock(r) ==
    /\ mu.rep[r].pc = "wantS"
    /\ ~mu.smu.writer /\ ~mu.smu.waiting
    /\ mu' = [mu EXCEPT !.rep[r].pc = "percentile", !.smu.readers = @ + 1]
    /\ MuUnchanged

\* the access ends (GetLatencyPercentile: as.mu.RUnlock())
MuReadEnd(r) ==
    /\ mu.rep[r].pc \in {"counters", "percentile", "histogram"}
    /\ mu' = [mu EXCEPT
                !.smu.readers = IF mu.rep[r].pc = "percentile" THEN @ - 1 ELSE @,
                !.rep[r].step = @ + 1,
                !.rep[r].pc = IF mu.rep[r].step < Len(MuAccesses(r))
                              THEN "next" ELSE "idle"]
    /\ MuUnchanged

MuNext ==
    \/ MuCollectReceive
    \/ MuCollectLock
    \/ MuCollectStatsLock
    \/ MuCollectUpdate
    \/ \E r \in Reporters :
          \/ MuCall(r)
          \/ MuGetStats(r)
          \/ MuGetStatsReturn(r)
          \/ MuReadBegin(r)
          \/ MuStatsRLock(r)
          \/ MuReadEnd(r)

MuSpec == MuInit /\ [][MuNext]_vars

\* every goroutine has done all it had to do
MuFinished ==
    /\ mu.collect = "recv" /\ mu.pending = 0
    /\ \A r \in Reporters :
          mu.rep[r].pc = "idle" /\ mu.rep[r].call = Len(mu.rep[r].plan)

\* goroutines inside GetStats, and inside GetLatencyPercentile
MapReaders == { r \in Reporters : mu.rep[r].pc = "getStats" }
RecordReaders == { r \in Reporters : mu.rep[r].pc = "percentile" }

\* C36: the locks never deadlock. Until all work is done some goroutine
\* can take a step; a goroutine that waits for a lock waits for goroutines
\* that hold it and wait for nothing themselves (the readers of the map lock
\* are inside GetStats, those of a record lock inside GetLatencyPercentile,
\* and collect waits for the record lock only while it holds the map lock);
\* no reader of a record lock holds or wants the map lock
C36_NoLockDeadlock ==
    /\ MuFinished \/ ENABLED MuNext
    /\ mu.cmu.readers = Cardinality(MapReaders)
    /\ mu.smu.readers = Cardinality(RecordReaders)
    /\ mu.cmu.writer <=> mu.collect \in {"wantS", "update"}
    /\ mu.smu.writer <=> mu.collect = "update"
    /\ mu.collect = "wantC" =>
          (ENABLED MuCollectLock \/ \E r \in MapReaders : ENABLED MuGetStatsReturn(r))
    /\ mu.collect = "wantS" =>
          (ENABLED MuCollectStatsLock \/ \E r \in RecordReaders : ENABLED MuReadEnd(r))
    /\ \A r \in Reporters :
          /\ mu.rep[r].pc = "wantC" =>
                (ENABLED MuGetStats(r) \/ mu.collect \in {"wantC", "wantS", "update"})
          /\ mu.rep[r].pc = "wantS" =>
                (ENABLED MuStatsRLock(r) \/ mu.collect \in {"wantS", "update"})

\* collect waits for the map lock that the live reporter holds inside
\* GetStats, and the final report waits behind collect for the same lock
C36_Witness ==
    /\ mu.collect = "wantC"
    /\ mu.rep["live"].pc = "getStats"
    /\ mu.rep["final"].pc = "wantC"
    /\ mu.rep["final"].plan[mu.rep["final"].call] = "SaveReport"

\* ---- the two final outputs ----------------------------------------------------
\* C37: once both exist, the final report and the output file show the same
\* OK, error and byte counts for every action
C37_ReportsAgree ==
    (printed # NoReport /\ saved # NoReport) =>
        \A n \in ActionNames :
           /\ saved[1][n].TotalOK = printed[1][n].TotalOK
           /\ saved[1][n].TotalErrors = printed[1][n].TotalErrors
           /\ saved[1][n].BytesTotal = printed[1][n].BytesTotal

\* ---- one event per execution --------------------------------------------------
\* C38: a call of executeAction has handed no event to recordMetric while
\* it runs and exactly one when it has returned, on every path (the request
\* could not be built, client.Do failed, a response came); the event bears
\* the action's name, and with status 0 it has an error and no bytes
C38_OneEventPerExecution ==
    /\ xch.pc # "done" => (xch.recorded = 0 /\ xch.pend = NoMetric)
    /\ xch.pc = "done" =>
          /\ xch.recorded = 1
          /\ xch.pend # NoMetric
          /\ xch.pend.Name = xch.a.Name
          /\ xch.pend.StatusCode = 0 =>
                (xch.pend.Error # "" /\ xch.pend.BytesRead = 0)

\* the call returned from the failed construction of its request
C38_Witness ==
    /\ xch.pc = "done"
    /\ ~xch.a.ValidURL
    /\ xch.recorded = 1
    /\ xch.pend.StatusCode = 0

\* ---- a request in flight when the scope fires ---------------------------------
\* C39: a request that is in flight when the scope has fired ends as an
\* event with status 0 and an error, for the action it was made for; the
\* worker hands that event to Record before it goes on, and from there it
\* goes back to Run and returns without another request, so that the end
\* of the test gives at most one such event per worker
C39_CancelledRequestIsError ==
    [][ proc' # "killed" =>
          \A w \in Workers :
             /\ (ctxDone /\ wpc[w] = "inflight" /\ wpc'[w] # "inflight") =>
                   /\ wpc'[w] = "record"
                   /\ pend'[w].Name = Actions[idx[w]].Name
                   /\ pend'[w].StatusCode = 0
                   /\ pend'[w].Error # ""
                   /\ pend'[w].BytesRead = 0
                   /\ ~IsSuccess(pend'[w])
             /\ (wpc[w] = "record" /\ wpc'[w] # "record") =>
                   /\ submitted'[pend[w].Name] = submitted[pend[w].Name] + 1
                   /\ wpc'[w] \in {"delay", "script", "loop"}
             /\ (ctxDone /\ wpc[w] \in {"delay", "script", "loop"}) =>
                   wpc'[w] \in {wpc[w], "script", "loop", "returned"}
             /\ (ctxDone /\ wpc[w] = "returned") => wpc'[w] = "returned"
             /\ wpc'[w] = "returned" => pend'[w] = NoMetric
      ]_vars

\* the scope has fired with the requests of both workers in flight: the
\* first has become an error event, the second is still in flight
C39_Witness ==
    /\ cfg.Users = 2
    /\ ctxDone
    /\ wpc[1] = "record"
    /\ pend[1].Error = CtxCanceled
    /\ wpc[2] = "inflight"

\* ---- a met expectation outside the success range ------------------------------
\* the status is one collect takes for a success
InSuccessRange(status) == status >= 200 /\ status < 400

\* C40: a response whose status is the expected status of its action, that
\* status being outside [200, 400), gives an event without an error
\* descriptor; and collect counts every event whose status is outside
\* [200, 400) as an error and not as OK, with or without an error descriptor
C40_MetExpectationOutsideRangeIsERR ==
    [][ /\ (/\ ResponseEmitted
            /\ ~InSuccessRange(Executed'.ExpectStatus)
            /\ pend'[1].StatusCode = Executed'.ExpectStatus)
              => pend'[1].Error = ""
        /\ (apc = "update" /\ apc' = "recv" /\ ~InSuccessRange(cur.StatusCode)) =>
              /\ actions'[cur.Name].TotalErrors =
                    (IF actions[cur.Name].Exists
                     THEN actions[cur.Name].TotalErrors ELSE 0) + 1
              /\ actions'[cur.Name].TotalOK =
                    (IF actions[cur.Name].Exists
                     THEN actions[cur.Name].TotalOK ELSE 0)
      ]_vars

\* the only event of the run so far, a response 400 to the action that
\* expects 400, has come to collect without an error descriptor, and collect
\* is about to count it
C40_Witness ==
    /\ TotalSubmitted = 1
    /\ wpc[1] = "inflight"
    /\ Executed.ExpectStatus = 400
    /\ apc = "update"
    /\ cur.Name = "Submit"
    /\ cur.StatusCode = 400
    /\ cur.Error = ""
    /\ cur.BytesRead = BodyBytes

====
